---- MODULE Spec2Model ----
(***************************************************************************)
(* A model of the listings pipeline of src/app.py (IRRES.be scraper):      *)
(* text / URL normalisation, price formatting, card parsing, detail        *)
(* extraction, record assembly and the /api/listings handler.              *)
(*                                                                         *)
(* Strings are sequences of characters.  A character is a one-letter TLA+  *)
(* string, except for the characters that have no ASCII spelling:          *)
(*   "EUR"  the euro sign U+20AC        "NBSP" the no-break space U+00A0   *)
(*   "SQ"   superscript two U+00B2      "BAR"  U+23A5, the Title separator *)
(*   "TAB", "LF"  tab and line feed     "UNK"  some other decoded char     *)
(*   "LAT_E2", "LAT_82", "LAT_AC", "LAT_C2"  the latin-1 characters that   *)
(*   the bytes of a UTF-8 encoded EUR / NBSP / SQ decode to.               *)
(***************************************************************************)
EXTENDS Integers, Sequences, FiniteSets, TLC

VARIABLES pc, page, links, idx, cur, assembled, listings, uniq, response, log, fn_in, fn_out

vars == <<pc, page, links, idx, cur, assembled, listings, uniq, response, log, fn_in, fn_out>>

\* ------------------------------------------------------------------ characters

Digits == <<"0", "1", "2", "3", "4", "5", "6", "7", "8", "9">>

IsDigit(c) == \E d \in 1..10 : Digits[d] = c

DigitVal(c) == (CHOOSE d \in 1..10 : Digits[d] = c) - 1

\* str.isspace() on the characters of the model
IsSpace(c) == c \in {" ", "NBSP", "TAB", "LF"}

IsHex(c) == IsDigit(c) \/ c \in {"a", "b", "c", "d", "e", "f", "A", "B", "C", "D", "E", "F"}

\* str.lower() / the folding of re.I
Lower(c) ==
    CASE c = "A" -> "a" [] c = "B" -> "b" [] c = "C" -> "c" [] c = "D" -> "d"
      [] c = "E" -> "e" [] c = "F" -> "f" [] c = "G" -> "g" [] c = "H" -> "h"
      [] c = "I" -> "i" [] c = "J" -> "j" [] c = "K" -> "k" [] c = "L" -> "l"
      [] c = "M" -> "m" [] c = "N" -> "n" [] c = "O" -> "o" [] c = "P" -> "p"
      [] c = "Q" -> "q" [] c = "R" -> "r" [] c = "S" -> "s" [] c = "T" -> "t"
      [] c = "U" -> "u" [] c = "V" -> "v" [] c = "W" -> "w" [] c = "X" -> "x"
      [] c = "Y" -> "y" [] c = "Z" -> "z"
      [] OTHER -> c

\* str.upper() on one character (str.capitalize uses it on the first one)
Upper(c) ==
    CASE c = "a" -> "A" [] c = "b" -> "B" [] c = "c" -> "C" [] c = "d" -> "D"
      [] c = "e" -> "E" [] c = "f" -> "F" [] c = "g" -> "G" [] c = "h" -> "H"
      [] c = "i" -> "I" [] c = "j" -> "J" [] c = "k" -> "K" [] c = "l" -> "L"
      [] c = "m" -> "M" [] c = "n" -> "N" [] c = "o" -> "O" [] c = "p" -> "P"
      [] c = "q" -> "Q" [] c = "r" -> "R" [] c = "s" -> "S" [] c = "t" -> "T"
      [] c = "u" -> "U" [] c = "v" -> "V" [] c = "w" -> "W" [] c = "x" -> "X"
      [] c = "y" -> "Y" [] c = "z" -> "Z"
      [] OTHER -> c

\* [A-Za-z]
IsAsciiLetter(c) == Lower(c) # c \/ Upper(c) # c

LowerStr(s) == [i \in 1..Len(s) |-> Lower(s[i])]

\* ------------------------------------------------------------------ string helpers

MatchAt(s, i, p) == i + Len(p) - 1 <= Len(s) /\ SubSeq(s, i, i + Len(p) - 1) = p

StartsWith(s, p) == MatchAt(s, 1, p)

\* position of the first occurrence of p in s, 0 when there is none (p in s, str.find)
Find(s, p) ==
    IF \E i \in 1..(Len(s) + 1) : MatchAt(s, i, p)
    THEN CHOOSE i \in 1..(Len(s) + 1) : MatchAt(s, i, p) /\ \A j \in 1..(i - 1) : ~MatchAt(s, j, p)
    ELSE 0

Contains(s, p) == Find(s, p) # 0

\* re.search(<literal>, s, re.I)
ReSearchI(p, s) == Contains(LowerStr(s), LowerStr(p))

HasChar(s, c) == \E i \in 1..Len(s) : s[i] = c

RECURSIVE LStripSet(_, _)
LStripSet(s, cs) == IF s # <<>> /\ Head(s) \in cs THEN LStripSet(Tail(s), cs) ELSE s

RECURSIVE RStripSet(_, _)
RStripSet(s, cs) ==
    IF s # <<>> /\ s[Len(s)] \in cs THEN RStripSet(SubSeq(s, 1, Len(s) - 1), cs) ELSE s

Spaces == {" ", "NBSP", "TAB", "LF"}

\* str.strip()
Strip(s) == RStripSet(LStripSet(s, Spaces), Spaces)

\* str.replace(c, "") for a one-character c
RemoveChar(s, c) == SelectSeq(s, LAMBDA x : x # c)

\* str.split(sep) for a one-character separator: the pieces, empty ones included
RECURSIVE SplitOn(_, _)
SplitOn(s, sep) ==
    IF ~HasChar(s, sep) THEN <<s>>
    ELSE LET k == CHOOSE i \in 1..Len(s) : s[i] = sep /\ \A j \in 1..(i - 1) : s[j] # sep
         IN  <<SubSeq(s, 1, k - 1)>> \o SplitOn(SubSeq(s, k + 1, Len(s)), sep)

\* str.split(): the maximal runs of non-whitespace characters
RECURSIVE SplitWs(_)
SplitWs(s) ==
    LET t == LStripSet(s, Spaces) IN
    IF t = <<>> THEN <<>>
    ELSE LET n == IF \E i \in 1..Len(t) : IsSpace(t[i])
                  THEN (CHOOSE i \in 1..Len(t) : IsSpace(t[i]) /\ \A j \in 1..(i - 1) : ~IsSpace(t[j])) - 1
                  ELSE Len(t)
         IN  <<SubSeq(t, 1, n)>> \o SplitWs(SubSeq(t, n + 1, Len(t)))

\* sep.join(parts)
RECURSIVE Join(_, _)
Join(parts, sep) ==
    IF parts = <<>> THEN <<>>
    ELSE IF Len(parts) = 1 THEN parts[1]
    ELSE parts[1] \o sep \o Join(Tail(parts), sep)

\* ------------------------------------------------------------------ normalize_text

\* html.unescape on the entities of the model; "&amp" and "&nbsp" are also
\* decoded without their semicolon (the HTML5 legacy names)
Entities ==
    << [pat |-> <<"&", "a", "m", "p", ";">>, rep |-> <<"&">>],
       [pat |-> <<"&", "a", "m", "p">>, rep |-> <<"&">>],
       [pat |-> <<"&", "n", "b", "s", "p", ";">>, rep |-> <<"NBSP">>],
       [pat |-> <<"&", "n", "b", "s", "p">>, rep |-> <<"NBSP">>],
       [pat |-> <<"&", "e", "u", "r", "o", ";">>, rep |-> <<"EUR">>],
       [pat |-> <<"&", "#", "1", "7", "8", ";">>, rep |-> <<"SQ">>] >>

EntityAt(s, i) ==
    IF \E k \in 1..Len(Entities) : MatchAt(s, i, Entities[k].pat)
    THEN CHOOSE k \in 1..Len(Entities) :
            MatchAt(s, i, Entities[k].pat) /\ \A j \in 1..(k - 1) : ~MatchAt(s, i, Entities[j].pat)
    ELSE 0

RECURSIVE HtmlUnescapeFrom(_, _)
HtmlUnescapeFrom(s, i) ==
    IF i > Len(s) THEN <<>>
    ELSE LET k == EntityAt(s, i) IN
         IF k = 0 THEN <<s[i]>> \o HtmlUnescapeFrom(s, i + 1)
         ELSE Entities[k].rep \o HtmlUnescapeFrom(s, i + Len(Entities[k].pat))

html_unescape(s) == HtmlUnescapeFrom(s, 1)

\* the character a \uXXXX / \xXX escape names (the hex digits, lower-cased)
CodePoint(h) ==
    CASE h = <<"0", "0", "b", "2">> \/ h = <<"b", "2">> -> "SQ"
      [] h = <<"0", "0", "a", "0">> \/ h = <<"a", "0">> -> "NBSP"
      [] h = <<"2", "0", "a", "c">> -> "EUR"
      [] h = <<"0", "0", "2", "0">> \/ h = <<"2", "0">> -> " "
      [] h = <<"0", "0", "2", "6">> \/ h = <<"2", "6">> -> "&"
      [] OTHER -> "UNK"

AllHex(s) == \A i \in 1..Len(s) : IsHex(s[i])

\* bytes(s, "utf-8") read back one byte per character: what a non-ASCII character becomes
Utf8AsLatin1(c) ==
    CASE c = "EUR" -> <<"LAT_E2", "LAT_82", "LAT_AC">>
      [] c = "NBSP" -> <<"LAT_C2", "NBSP">>
      [] c = "SQ" -> <<"LAT_C2", "SQ">>
      [] OTHER -> <<c>>

\* bytes(s, "utf-8").decode("unicode_escape") from position i:
\* [ok |-> FALSE] when the decoder raises (a truncated \u, \x or a trailing backslash)
RECURSIVE UnicodeEscapeFrom(_, _)
UnicodeEscapeFrom(s, i) ==
    IF i > Len(s) THEN [ok |-> TRUE, out |-> <<>>]
    ELSE IF s[i] # "\\"
    THEN LET r == UnicodeEscapeFrom(s, i + 1) IN
         [ok |-> r.ok, out |-> Utf8AsLatin1(s[i]) \o r.out]
    ELSE IF i = Len(s) THEN [ok |-> FALSE, out |-> <<>>]
    ELSE IF s[i + 1] = "u"
    THEN IF i + 5 <= Len(s) /\ AllHex(SubSeq(s, i + 2, i + 5))
         THEN LET r == UnicodeEscapeFrom(s, i + 6) IN
              [ok |-> r.ok, out |-> <<CodePoint(LowerStr(SubSeq(s, i + 2, i + 5)))>> \o r.out]
         ELSE [ok |-> FALSE, out |-> <<>>]
    ELSE IF s[i + 1] = "x"
    THEN IF i + 3 <= Len(s) /\ AllHex(SubSeq(s, i + 2, i + 3))
         THEN LET r == UnicodeEscapeFrom(s, i + 4) IN
              [ok |-> r.ok, out |-> <<CodePoint(LowerStr(SubSeq(s, i + 2, i + 3)))>> \o r.out]
         ELSE [ok |-> FALSE, out |-> <<>>]
    ELSE LET r == UnicodeEscapeFrom(s, i + 2)
             e == CASE s[i + 1] = "n" -> <<"LF">>
                    [] s[i + 1] = "t" -> <<"TAB">>
                    [] s[i + 1] = "\\" -> <<"\\">>
                    [] OTHER -> <<"\\">> \o Utf8AsLatin1(s[i + 1])
         IN  [ok |-> r.ok, out |-> e \o r.out]

\* the decoded text, or the text as it was when the decoder raised
DecodedOr(r, u) == IF r.ok THEN r.out ELSE u

\* "if '\\u' in s or '\\x' in s": the literal escapes are decoded
DecodeEscapes(u) ==
    IF Contains(u, <<"\\", "u">>) \/ Contains(u, <<"\\", "x">>)
    THEN DecodedOr(UnicodeEscapeFrom(u, 1), u)
    ELSE u

\* the mutant of CollapseWhitespace: each pair of whitespace characters becomes one space
RECURSIVE HalveSpaces(_)
HalveSpaces(s) ==
    IF Len(s) < 2 THEN s
    ELSE IF IsSpace(s[1]) /\ IsSpace(s[2]) THEN <<" ">> \o HalveSpaces(SubSeq(s, 3, Len(s)))
    ELSE <<s[1]>> \o HalveSpaces(Tail(s))

CollapseWhitespaceInPairs(s) == Strip(HalveSpaces(s))

\* " ".join(s.split()).strip()
CollapseWhitespace(s) == Strip(Join(SplitWs(s), <<" ">>))

\* app.py normalize_text: entities, literal escapes, whitespace
normalize_text(s) == CollapseWhitespace(DecodeEscapes(html_unescape(s)))

\* ------------------------------------------------------------------ normalize_url

SiteOrigin == <<"h", "t", "t", "p", "s", ":", "/", "/", "i", "r", "r", "e", "s", ".", "b", "e">>

PandPath == <<"/", "p", "a", "n", "d", "/">>

TrackingParam == <<"o", "r", "i", "g", "i", "n", "=", "h", "a", "b", "i", "c", "h", "a", "t">>

\* url + ('&' if '?' in url else '?') + 'origin=habichat'
AppendTracking(url) == url \o (IF HasChar(url, "?") THEN <<"&">> ELSE <<"?">>) \o TrackingParam

\* re.match(r'https?://', src, re.I)
IsHttpAbsolute(src) ==
    \/ StartsWith(LowerStr(src), <<"h", "t", "t", "p", ":", "/", "/">>)
    \/ StartsWith(LowerStr(src), <<"h", "t", "t", "p", "s", ":", "/", "/">>)

\* src.strip().strip('\'"')
StripQuotes(src) == RStripSet(LStripSet(Strip(src), {"'", "\""}), {"'", "\""})

\* the branches of normalize_url on the stripped text
ResolveUrl(s) ==
    IF StartsWith(s, <<"/", "/">>) THEN <<"h", "t", "t", "p", "s", ":">> \o s
    ELSE IF StartsWith(s, <<"/">>) THEN SiteOrigin \o s
    ELSE IF IsHttpAbsolute(s) THEN s
    ELSE IF StartsWith(s, <<"w", "w", "w", ".">>) THEN <<"h", "t", "t", "p", "s", ":", "/", "/">> \o s
    ELSE IF ~HasChar(s, ":") THEN SiteOrigin \o <<"/">> \o LStripSet(s, {"/"})
    ELSE s

\* the mutant of WithTracking: the parameter is always appended after "?"
WithTrackingAsFirstParameter(url, add_tracking) ==
    IF add_tracking /\ Contains(url, PandPath) THEN url \o <<"?">> \o TrackingParam ELSE url

\* "Add tracking parameter to listing URLs only"
WithTracking(url, add_tracking) ==
    IF add_tracking /\ Contains(url, PandPath) THEN AppendTracking(url) ELSE url

normalize_url(src, add_tracking) ==
    IF src = <<>> THEN <<>> ELSE WithTracking(ResolveUrl(StripQuotes(src)), add_tracking)

\* re.search(r'/pand/(\d+)', url): the digits after the first "/pand/" that has one
RECURSIVE DigitRun(_, _)
DigitRun(s, i) ==
    IF i <= Len(s) /\ IsDigit(s[i]) THEN <<s[i]>> \o DigitRun(s, i + 1) ELSE <<>>

extract_listing_id_from_url(url) ==
    LET hit(i) == MatchAt(url, i, PandPath) /\ i + 6 <= Len(url) /\ IsDigit(url[i + 6]) IN
    IF \E i \in 1..Len(url) : hit(i)
    THEN DigitRun(url, (CHOOSE i \in 1..Len(url) : hit(i) /\ \A j \in 1..(i - 1) : ~hit(j)) + 6)
    ELSE <<>>

\* ------------------------------------------------------------------ format_price_string

PrijsOpAanvraag ==
    <<"P", "r", "i", "j", "s", " ", "o", "p", " ", "a", "a", "n", "v", "r", "a", "a", "g">>

Compromis == <<"C", "o", "m", "p", "r", "o", "m", "i", "s">>

CompromisInOpmaak == Compromis \o <<" ", "i", "n", " ", "o", "p", "m", "a", "a", "k">>

\* re.sub(r'(?i)prijs op aanvraag|compromis.*', '', s) from position i
RECURSIVE ReSubPhrases(_, _)
ReSubPhrases(s, i) ==
    IF i > Len(s) THEN <<>>
    ELSE IF MatchAt(LowerStr(s), i, LowerStr(PrijsOpAanvraag))
    THEN ReSubPhrases(s, i + Len(PrijsOpAanvraag))
    ELSE IF MatchAt(LowerStr(s), i, LowerStr(Compromis))
    THEN IF \E j \in i..Len(s) : s[j] = "LF"
         THEN ReSubPhrases(s, CHOOSE j \in i..Len(s) : s[j] = "LF" /\ \A k \in i..(j - 1) : s[k] # "LF")
         ELSE <<>>
    ELSE <<s[i]>> \o ReSubPhrases(s, i + 1)

\* int(digits)
RECURSIVE DigitsToInt(_)
DigitsToInt(d) ==
    IF d = <<>> THEN 0 ELSE 10 * DigitsToInt(SubSeq(d, 1, Len(d) - 1)) + DigitVal(d[Len(d)])

\* str(n) for n >= 0
RECURSIVE IntToStr(_)
IntToStr(n) == IF n < 10 THEN <<Digits[n + 1]>> ELSE IntToStr(n \div 10) \o <<Digits[(n % 10) + 1]>>

\* format(num, ','): groups of three from the right
RECURSIVE FormatComma(_)
FormatComma(n) ==
    IF n < 1000 THEN IntToStr(n)
    ELSE LET r == n % 1000 IN
         FormatComma(n \div 1000) \o <<",">>
            \o <<Digits[(r \div 100) + 1], Digits[((r \div 10) % 10) + 1], Digits[(r % 10) + 1]>>

ReplaceChar(s, a, b) == [i \in 1..Len(s) |-> IF s[i] = a THEN b ELSE s[i]]

\* "€ " and the amount with "." between the thousands, or the text when no digit is left
EuroAmountOr(digits, s) ==
    IF digits = <<>> THEN s
    ELSE <<"EUR", " ">> \o ReplaceChar(FormatComma(DigitsToInt(digits)), ",", ".")

\* the classification of the normalized text s
PriceOfText(s) ==
    IF ReSearchI(PrijsOpAanvraag, s) THEN PrijsOpAanvraag
    ELSE IF ReSearchI(Compromis, s) THEN CompromisInOpmaak
    ELSE EuroAmountOr(SelectSeq(Strip(ReSubPhrases(RemoveChar(s, "EUR"), 1)), IsDigit), s)

format_price_string(raw) == IF raw = <<>> THEN <<>> ELSE PriceOfText(normalize_text(raw))

\* ------------------------------------------------------------------ image candidates

\* re.search over the lower-cased URL for one of the literals of ps
AnyContainsI(s, ps) == \E p \in ps : Contains(LowerStr(s), p)

UploadMarkersCard == {<<"/", "u", "p", "l", "o", "a", "d", "s">>, <<"u", "p", "l", "o", "a", "d", "s", "_", "c">>, <<"/", "s", "i", "t", "e", "a", "s", "s", "e", "t", "s">>, <<"/", "p", "a", "n", "d", "e", "n">>}

UploadMarkersDetail == {<<"/", "u", "p", "l", "o", "a", "d", "s">>, <<"u", "p", "l", "o", "a", "d", "s", "_", "c">>, <<"s", "i", "t", "e", "a", "s", "s", "e", "t", "s">>, <<"/", "p", "a", "n", "d", "e", "n">>}

\* re.search(r'\.(jpg|jpeg|png|webp|gif)(?:\?|$)', n, re.I)
HasImageExtAtEnd(n) ==
    \E e \in {<<".", "j", "p", "g">>, <<".", "j", "p", "e", "g">>, <<".", "p", "n", "g">>, <<".", "w", "e", "b", "p">>, <<".", "g", "i", "f">>} :
        \E i \in 1..Len(n) :
            /\ MatchAt(LowerStr(n), i, e)
            /\ (i + Len(e) = Len(n) + 1 \/ n[i + Len(e)] = "?")

\* re.search(r'\.(jpg|jpeg|png|webp)', n, re.I)
HasImageExtAnywhere(n) == AnyContainsI(n, {<<".", "j", "p", "g">>, <<".", "j", "p", "e", "g">>, <<".", "p", "n", "g">>, <<".", "w", "e", "b", "p">>})

\* the mutant of KeepUsable: vector graphics are kept
KeepUsableWithVectors(raw, c) ==
    IF raw # <<>> /\ c # <<>> /\ ~StartsWith(c, <<"d", "a", "t", "a", ":">>) THEN <<c>> ELSE <<>>

\* a normalized candidate is kept unless it is empty, a data: URL or an svg
KeepUsable(raw, c) ==
    IF raw # <<>> /\ c # <<>> /\ ~StartsWith(c, <<"d", "a", "t", "a", ":">>)
          /\ ~Contains(LowerStr(c), <<"s", "v", "g">>)
    THEN <<c>>
    ELSE <<>>

\* the "Normalize and filter" loop of both image searches
RECURSIVE NormalizeAndFilter(_)
NormalizeAndFilter(cands) ==
    IF cands = <<>> THEN <<>>
    ELSE KeepUsable(Head(cands), normalize_url(Head(cands), FALSE))
            \o NormalizeAndFilter(Tail(cands))

FirstWhere(s, P(_)) ==
    IF \E i \in 1..Len(s) : P(s[i])
    THEN s[CHOOSE i \in 1..Len(s) : P(s[i]) /\ \A j \in 1..(i - 1) : ~P(s[j])]
    ELSE IF s = <<>> THEN <<>> ELSE s[1]

\* find_photo_on_element, from the candidates gathered on the card
find_photo_on_element(cands) ==
    FirstWhere(NormalizeAndFilter(cands),
               LAMBDA n : AnyContainsI(n, UploadMarkersCard) \/ HasImageExtAtEnd(n))

\* find_landscape_image_from_detail, from the candidates gathered on the detail page
find_landscape_image_from_detail(cands) ==
    FirstWhere(NormalizeAndFilter(cands),
               LAMBDA n : AnyContainsI(n, UploadMarkersDetail) /\ HasImageExtAnywhere(n))

\* ------------------------------------------------------------------ parse_main_listing_card

TYPE_MAPPING ==
    << [k |-> <<"D", "w", "e", "l", "l", "i", "n", "g">>, v |-> <<"H", "u", "i", "s">>],
       [k |-> <<"F", "l", "a", "t">>, v |-> <<"A", "p", "p", "a", "r", "t", "e", "m", "e", "n", "t">>],
       [k |-> <<"L", "a", "n", "d">>, v |-> <<"G", "r", "o", "n", "d">>],
       [k |-> <<"d", "w", "e", "l", "l", "i", "n", "g">>, v |-> <<"H", "u", "i", "s">>],
       [k |-> <<"f", "l", "a", "t">>, v |-> <<"A", "p", "p", "a", "r", "t", "e", "m", "e", "n", "t">>],
       [k |-> <<"l", "a", "n", "d">>, v |-> <<"G", "r", "o", "n", "d">>] >>

InTypeKeys(p) == \E i \in 1..Len(TYPE_MAPPING) : TYPE_MAPPING[i].k = p

InTypeValues(p) == \E i \in 1..Len(TYPE_MAPPING) : TYPE_MAPPING[i].v = p

\* TYPE_MAPPING.get(p, default)
TypeGet(p, default) ==
    IF InTypeKeys(p)
    THEN TYPE_MAPPING[CHOOSE i \in 1..Len(TYPE_MAPPING) : TYPE_MAPPING[i].k = p].v
    ELSE default

\* the text nodes of the anchor in document order: the city heading's, then the others
TextNodes(link) == (IF link.h2present THEN <<link.h2text>> ELSE <<>>) \o link.texts

\* link.get_text(separator="|", strip=True)
get_text(link) ==
    Join(SelectSeq([i \in 1..Len(TextNodes(link)) |-> Strip(TextNodes(link)[i])],
                   LAMBDA t : t # <<>>),
         <<"|">>)

IsPriceLike(p) == HasChar(p, "EUR") \/ ReSearchI(PrijsOpAanvraag, p) \/ ReSearchI(Compromis, p)

IsTypeLike(p) == InTypeKeys(p) \/ InTypeValues(p) \/ InTypeKeys(LowerStr(p))

\* the heuristic loop over the parts, from part i with the fields found so far
RECURSIVE HeuristicPass(_, _, _, _)
HeuristicPass(parts, i, location, acc) ==
    IF i > Len(parts) THEN acc
    ELSE LET p == parts[i] IN
         IF IsPriceLike(p)
         THEN HeuristicPass(parts, i + 1, location, [acc EXCEPT !.price = p])
         ELSE IF IsTypeLike(p)
         THEN HeuristicPass(parts, i + 1, location,
                            [acc EXCEPT !.listing_type = TypeGet(p, TypeGet(LowerStr(p), p))])
         ELSE IF acc.description = <<>> /\ p # location /\ p # acc.listing_type
         THEN HeuristicPass(parts, i + 1, location, [acc EXCEPT !.description = p])
         ELSE HeuristicPass(parts, i + 1, location, acc)

\* the listing URL from the normalized href: lines 398-404
HrefOf(href) ==
    IF href # <<>> /\ ~StartsWith(href, <<"h", "t", "t", "p">>) THEN normalize_url(href, TRUE)
    ELSE IF StartsWith(href, <<"h", "t", "t", "p">>) /\ Contains(href, PandPath) THEN AppendTracking(href)
    ELSE href

\* the listing URL of a card: lines 396-404
CardHref(link) == HrefOf(normalize_text(link.href))

\* the location of a card: lines 411-417
CardLocation(link) ==
    IF ~link.h2present THEN <<>>
    ELSE IF Strip(link.h2data) # <<>> THEN Strip(link.h2data)
    ELSE normalize_text(link.h2text)

NormalizeEach(pieces) == [i \in 1..Len(pieces) |-> normalize_text(pieces[i])]

\* the normalized, non-empty parts of the card text: lines 420-422
CardParts(link) ==
    SelectSeq(NormalizeEach(SplitOn(normalize_text(get_text(link)), "|")), LAMBDA p : p # <<>>)

\* "Fallback for description": lines 445-448
DescriptionOf(parts, location, description) ==
    IF description = <<>> /\ Len(parts) >= 2 /\ ~InTypeKeys(parts[Len(parts)])
          /\ ~HasChar(parts[Len(parts)], "EUR") /\ parts[Len(parts)] # location
    THEN parts[Len(parts)]
    ELSE description

\* the dictionary returned by parse_main_listing_card
CardRecord(link, location, parts, found) ==
    [listing_url |-> CardHref(link),
     location |-> location,
     price_raw |-> found.price,
     description |-> DescriptionOf(parts, location, found.description),
     listing_type |-> found.listing_type,
     photo_candidate |-> find_photo_on_element(link.imgs),
     anchor_name |-> normalize_text(IF link.name # <<>> THEN link.name ELSE link.data_name)]

ParseCardWith(link, location, parts) ==
    CardRecord(link, location, parts,
               HeuristicPass(parts, 1, location,
                             [price |-> <<>>, description |-> <<>>, listing_type |-> <<>>]))

parse_main_listing_card(link) == ParseCardWith(link, CardLocation(link), CardParts(link))

\* ------------------------------------------------------------------ detail extraction

\* re.split(r'[._\-]', s): the pieces between the separators, empty ones included
RECURSIVE SplitOnSet(_, _)
SplitOnSet(s, seps) ==
    IF ~\E i \in 1..Len(s) : s[i] \in seps THEN <<s>>
    ELSE LET k == CHOOSE i \in 1..Len(s) : s[i] \in seps /\ \A j \in 1..(i - 1) : s[j] \notin seps
         IN  <<SubSeq(s, 1, k - 1)>> \o SplitOnSet(SubSeq(s, k + 1, Len(s)), seps)

\* str.capitalize()
Capitalize(s) == [i \in 1..Len(s) |-> IF i = 1 THEN Upper(s[i]) ELSE Lower(s[i])]

NameSeparators == {".", "_", "-"}

Mailto == <<"m", "a", "i", "l", "t", "o", ":">>

RECURSIVE RunUntil(_, _, _)
RunUntil(s, i, stop) ==
    IF i <= Len(s) /\ s[i] # stop THEN <<s[i]>> \o RunUntil(s, i + 1, stop) ELSE <<>>

\* re.search(r'mailto:([^?]+)', href).group(1), empty when there is no match
MailtoAddress(href) ==
    LET hit(i) == MatchAt(href, i, Mailto) /\ i + 7 <= Len(href) /\ href[i + 7] # "?" IN
    IF \E i \in 1..Len(href) : hit(i)
    THEN RunUntil(href, (CHOOSE i \in 1..Len(href) : hit(i) /\ \A j \in 1..(i - 1) : ~hit(j)) + 7, "?")
    ELSE <<>>

\* the address of one mail-link: normalize_text(m.group(1)), empty without href or match
MailtoCandidate(href) == IF href = <<>> THEN <<>> ELSE normalize_text(MailtoAddress(href))

\* the first mail-link of the document that yields a non-empty address
RECURSIVE FirstMailto(_)
RECURSIVE FirstCandidateOr(_, _)
FirstCandidateOr(email_candidate, hrefs) ==
    IF email_candidate # <<>> THEN email_candidate ELSE FirstMailto(hrefs)

FirstMailto(hrefs) ==
    IF hrefs = <<>> THEN <<>>
    ELSE FirstCandidateOr(MailtoCandidate(Head(hrefs)), Tail(hrefs))

CapitalizeToken(local_token) == IF local_token # <<>> THEN Capitalize(local_token) ELSE <<>>

\* the first token of the local part, capitalized
FirstNameOf(email) == CapitalizeToken(SplitOnSet(SplitOn(email, "@")[1], NameSeparators)[1])

ContactOfEmail(email) == [first_name |-> FirstNameOf(email), email |-> email]

\* the mail-link's address if there is one, else the e-mail pattern of the text
ContactFound(email, text_email) ==
    IF email # <<>> THEN ContactOfEmail(email)
    ELSE IF text_email # <<>> THEN ContactOfEmail(normalize_text(text_email))
    ELSE [first_name |-> <<>>, email |-> <<>>]

\* extract_contact_and_email_from_detail: doc.mailtos are the hrefs of the mail-links in
\* document order, doc.text_email the first e-mail pattern of the visible text
extract_contact_and_email_from_detail(doc) ==
    ContactFound(FirstMailto(doc.mailtos), doc.text_email)

DetailKeys ==
    << <<"T", "e", "r", "r", "e", "i", "n", "_", "o", "p", "p", "e", "r", "v", "l", "a", "k", "t", "e">>, <<"B", "e", "w", "o", "o", "n", "b", "a", "r", "e", "_", "o", "p", "p", "e", "r", "v", "l", "a", "k", "t", "e">>, <<"T", "e", "r", "r", "a", "s", "_", "o", "p", "p", "e", "r", "v", "l", "a", "k", "t", "e">>,
       <<"O", "r", "i", "e", "n", "t", "a", "t", "i", "e">>, <<"S", "l", "a", "a", "p", "k", "a", "m", "e", "r", "s">>, <<"B", "a", "d", "k", "a", "m", "e", "r", "s">>, <<"B", "o", "u", "w", "j", "a", "a", "r">>, <<"R", "e", "n", "o", "v", "a", "t", "i", "e", "j", "a", "a", "r">>,
       <<"E", "P", "C">>, <<"B", "e", "s", "c", "h", "i", "k", "b", "a", "a", "r", "h", "e", "i", "d">> >>

DetailKeySet == {DetailKeys[i] : i \in 1..Len(DetailKeys)}

EmptyDetails == [k \in DetailKeySet |-> <<>>]

\* the detail field a data-value label is matched to, <<>> when it matches none
MatchDetailKey(key) ==
    LET key_lower == LowerStr(key) IN
    IF Contains(key_lower, <<"t", "e", "r", "r", "e", "i", "n">>) THEN <<"T", "e", "r", "r", "e", "i", "n", "_", "o", "p", "p", "e", "r", "v", "l", "a", "k", "t", "e">>
    ELSE IF Contains(key_lower, <<"t", "e", "r", "r", "a", "s">>) THEN <<"T", "e", "r", "r", "a", "s", "_", "o", "p", "p", "e", "r", "v", "l", "a", "k", "t", "e">>
    ELSE IF Contains(key_lower, <<"b", "e", "w", "o", "o", "n", "b", "a", "r", "e">>) THEN <<"B", "e", "w", "o", "o", "n", "b", "a", "r", "e", "_", "o", "p", "p", "e", "r", "v", "l", "a", "k", "t", "e">>
    ELSE IF Contains(key_lower, <<"o", "r", "i">>) THEN <<"O", "r", "i", "e", "n", "t", "a", "t", "i", "e">>
    ELSE IF Contains(key_lower, <<"s", "l", "a", "a", "p">>) THEN <<"S", "l", "a", "a", "p", "k", "a", "m", "e", "r", "s">>
    ELSE IF Contains(key_lower, <<"b", "a", "d">>) THEN <<"B", "a", "d", "k", "a", "m", "e", "r", "s">>
    ELSE IF Contains(key_lower, <<"b", "o", "u", "w">>) /\ ~Contains(key_lower, <<"r", "e", "n", "o">>) THEN <<"B", "o", "u", "w", "j", "a", "a", "r">>
    ELSE IF Contains(key_lower, <<"r", "e", "n", "o">>) THEN <<"R", "e", "n", "o", "v", "a", "t", "i", "e", "j", "a", "a", "r">>
    ELSE IF Contains(key_lower, <<"e", "p", "c">>) THEN <<"E", "P", "C">>
    ELSE IF Contains(key_lower, <<"b", "e", "s", "c", "h", "i", "k">>) THEN <<"B", "e", "s", "c", "h", "i", "k", "b", "a", "a", "r", "h", "e", "i", "d">>
    ELSE <<>>

\* extract_property_details_from_detail_soup: lis are the li[data-value] items in document
\* order, each with its label and the text of its value
RECURSIVE ExtractDetailsFrom(_, _, _)
ExtractDetailsFrom(lis, i, details) ==
    IF i > Len(lis) THEN details
    ELSE LET value == normalize_text(lis[i].value)
             field == MatchDetailKey(Strip(lis[i].key))
         IN  IF value = <<>> \/ field = <<>> THEN ExtractDetailsFrom(lis, i + 1, details)
             ELSE ExtractDetailsFrom(lis, i + 1, [details EXCEPT ![field] = value])

extract_property_details_from_detail_soup(doc) == ExtractDetailsFrom(doc.lis, 1, EmptyDetails)

\* the mutant of format_details_as_string: every key is written, empty values included
RECURSIVE DetailPartsAll(_, _)
DetailPartsAll(details, i) ==
    IF i > Len(DetailKeys) THEN <<>>
    ELSE <<DetailKeys[i] \o <<":", " ">> \o details[DetailKeys[i]]>> \o DetailPartsAll(details, i + 1)

format_details_all_keys(details) == Join(DetailPartsAll(details, 1), <<";", " ">>)

\* format_details_as_string: "key: value" of the non-empty values, joined by "; "
RECURSIVE DetailParts(_, _)
DetailParts(details, i) ==
    IF i > Len(DetailKeys) THEN <<>>
    ELSE LET value == details[DetailKeys[i]] IN
         (IF value # <<>> /\ Strip(value) # <<>>
          THEN <<DetailKeys[i] \o <<":", " ">> \o value>> ELSE <<>>)
            \o DetailParts(details, i + 1)

format_details_as_string(details) == Join(DetailParts(details, 1), <<";", " ">>)

\* ------------------------------------------------------------------ get_listings: one listing

\* a detail document: the hrefs of its mail-links in document order and, for each, whether
\* it stands inside the contact form; the first e-mail pattern of its text; its
\* li[data-value] items; its image candidates
EmptyDoc == [mailtos |-> <<>>, in_form |-> <<>>, text_email |-> <<>>, lis |-> <<>>, imgs |-> <<>>]

\* fetch_detail_page returned None
NoDetail == [ok |-> FALSE, doc |-> EmptyDoc]

OnRequestPrice == PrijsOpAanvraag

CapitalizeEach(pieces) == [i \in 1..Len(pieces) |-> Capitalize(pieces[i])]

\* "Contacteer <n> - Irres": lines 807-809
ContactLabel(name_label) ==
    <<"C", "o", "n", "t", "a", "c", "t", "e", "e", "r", " ">>
       \o Join(CapitalizeEach(SelectSeq(SplitOnSet(name_label, NameSeparators), LAMBDA p : p # <<>>)), <<" ">>)
       \o <<" ", "-", " ", "I", "r", "r", "e", "s">>

\* the mutant of ContactFrom: the label is made of the whole local part
ContactFromLocalPart(c) ==
    IF c.email # <<>>
    THEN [label |-> ContactLabel(SplitOn(c.email, "@")[1]), email |-> Mailto \o c.email]
    ELSE [label |-> <<>>, email |-> <<>>]

\* the contact button of an extracted (first_name, email): lines 804-809
ContactFrom(c) ==
    IF c.email # <<>>
    THEN [label |-> ContactLabel(IF c.first_name # <<>> THEN c.first_name ELSE SplitOn(c.email, "@")[1]),
          email |-> Mailto \o c.email]
    ELSE [label |-> <<>>, email |-> <<>>]

\* Button2_Label / Button2_email: lines 786-809
ContactOf(detail) ==
    IF detail.ok THEN ContactFrom(extract_contact_and_email_from_detail(detail.doc))
    ELSE [label |-> <<>>, email |-> <<>>]

\* "if details_found.get(k): details[k] = details_found[k]"
CopyFound(details_found) ==
    [k \in DetailKeySet |-> IF details_found[k] # <<>> THEN details_found[k] ELSE <<>>]

\* the details dictionary: lines 788-815
DetailsOf(detail) ==
    IF detail.ok THEN CopyFound(extract_property_details_from_detail_soup(detail.doc))
    ELSE EmptyDetails

\* "Fallback image search if no photo on main page": lines 817-821
PhotoChoice(photo_candidate, ok, fallback) ==
    IF ok /\ photo_candidate = <<>> /\ fallback # <<>> THEN fallback ELSE photo_candidate

\* "Normalize photo URL": line 824
NormalizedPhoto(photo_url) == IF photo_url # <<>> THEN normalize_url(photo_url, FALSE) ELSE <<>>

\* photo_url: lines 780, 817-824
PhotoOf(parsed, detail) ==
    NormalizedPhoto(PhotoChoice(parsed.photo_candidate, detail.ok,
                                find_landscape_image_from_detail(detail.doc.imgs)))

\* Title: lines 829-832
TitleOf(location, price_formatted) ==
    IF location # <<>> /\ price_formatted # <<>> THEN location \o <<"BAR">> \o price_formatted
    ELSE IF location # <<>> THEN location
    ELSE price_formatted

\* the location after "Update location from Title if needed": lines 834-838
LocationOf(parsed_location, Title) ==
    IF parsed_location = <<>> /\ Title # <<>> /\ HasChar(Title, "BAR")
    THEN LET possible_loc == Strip(SplitOn(Title, "BAR")[1]) IN
         IF possible_loc # <<>> /\ ~HasChar(possible_loc, "EUR") THEN normalize_text(possible_loc)
         ELSE parsed_location
    ELSE parsed_location

IsIdChar(c) == IsAsciiLetter(c) \/ IsDigit(c) \/ c = "-"

\* the mutant of ListingIdOf: the number of the URL is preferred to the anchor name
ListingIdOfNumberFirst(parsed, location) ==
    IF extract_listing_id_from_url(parsed.listing_url) # <<>>
    THEN extract_listing_id_from_url(parsed.listing_url) \o <<"-">>
            \o SelectSeq(IF SplitWs(location) # <<>> THEN SplitWs(location)[1] ELSE <<>>, IsIdChar)
    ELSE IF parsed.anchor_name # <<>> THEN parsed.anchor_name
    ELSE parsed.listing_url

\* listing_id: lines 840-847
ListingIdOf(parsed, location) ==
    IF parsed.anchor_name # <<>> THEN parsed.anchor_name
    ELSE LET listing_id_num == extract_listing_id_from_url(parsed.listing_url)
             words == SplitWs(location)
             location_for_id == SelectSeq(IF words # <<>> THEN words[1] ELSE <<>>, IsIdChar)
         IN  IF listing_id_num # <<>> THEN listing_id_num \o <<"-">> \o location_for_id
             ELSE parsed.listing_url

\* TYPE_MAPPING.get(lt, TYPE_MAPPING.get(lt.lower(), lt)) if lt else ""
MapType(lt) == IF lt # <<>> THEN TypeGet(lt, TypeGet(LowerStr(lt), lt)) ELSE <<>>

\* the mutant of Button3Of: the inquiry button is filled for every priced listing
Button3OfAnyPrice(price_formatted, button2_email, listing_id) ==
    IF price_formatted # <<>>
    THEN [label |-> <<"V", "r", "a", "a", "g", " ", "p", "r", "i", "j", "s", " ", "a", "a", "n">>,
          value |-> button2_email \o <<"?", "s", "u", "b", "j", "e", "c", "t", "=", "P", "r", "i", "j", "s", " ", "a", "a", "n", "v", "r", "a", "a", "g", " ">> \o listing_id]
    ELSE [label |-> <<>>, value |-> <<>>]

\* Button3_Label / Button3_Value: lines 852-856
Button3Of(price_formatted, button2_email, listing_id) ==
    IF price_formatted = OnRequestPrice
    THEN [label |-> <<"V", "r", "a", "a", "g", " ", "p", "r", "i", "j", "s", " ", "a", "a", "n">>,
          value |-> button2_email \o <<"?", "s", "u", "b", "j", "e", "c", "t", "=", "P", "r", "i", "j", "s", " ", "a", "a", "n", "v", "r", "a", "a", "g", " ">> \o listing_id]
    ELSE [label |-> <<>>, value |-> <<>>]

\* listing_obj: lines 862-877
ListingObj(parsed, detail, price_formatted, Title, location, listing_id, contact, button3) ==
    [listing_id |-> listing_id,
     listing_url |-> parsed.listing_url,
     photo_url |-> PhotoOf(parsed, detail),
     price |-> price_formatted,
     location |-> location,
     description |-> parsed.description,
     listing_type |-> MapType(parsed.listing_type),
     Title |-> Title,
     Button1_Label |-> <<"B", "e", "k", "i", "j", "k", " ", "h", "e", "t", " ", "o", "p", " ", "o", "n", "z", "e", " ", "w", "e", "b", "s", "i", "t", "e">>,
     Button2_Label |-> contact.label,
     Button2_email |-> contact.email,
     Button3_Label |-> button3.label,
     Button3_Value |-> button3.value,
     details |-> format_details_as_string(DetailsOf(detail))]

\* lines 849-877, with the identifier and the contact button known
BuildIdentified(parsed, detail, price_formatted, Title, location, listing_id, contact) ==
    ListingObj(parsed, detail, price_formatted, Title, location, listing_id, contact,
               Button3Of(price_formatted, contact.email, listing_id))

\* lines 840-877, with the location known
BuildLocated(parsed, detail, price_formatted, Title, location) ==
    BuildIdentified(parsed, detail, price_formatted, Title, location,
                    ListingIdOf(parsed, location), ContactOf(detail))

\* lines 829-877, with the formatted price known
BuildPriced(parsed, detail, price_formatted, Title) ==
    BuildLocated(parsed, detail, price_formatted, Title, LocationOf(parsed.location, Title))

\* "Format price": line 827
PriceOf(parsed) == IF parsed.price_raw # <<>> THEN format_price_string(parsed.price_raw) ELSE <<>>

BuildTitled(parsed, detail, price_formatted) ==
    BuildPriced(parsed, detail, price_formatted, TitleOf(parsed.location, price_formatted))

\* listing_obj: the body of the loop of get_listings after the detail fetch
BuildListing(parsed, detail) == BuildTitled(parsed, detail, PriceOf(parsed))

\* the mutant of HasContent: a listing needs a location to be kept
HasLocation(obj) == obj.location # <<>>

\* "Only add listing if it has meaningful content": line 880
HasContent(obj) == obj.location # <<>> \/ obj.price # <<>> \/ obj.description # <<>>

\* the mutant of DedupById: the last record of each listing_id is kept
RECURSIVE DedupByIdLast(_)
DedupByIdLast(ls) ==
    IF ls = <<>> THEN <<>>
    ELSE IF \E j \in 2..Len(ls) : ls[j].listing_id = ls[1].listing_id
    THEN DedupByIdLast(Tail(ls))
    ELSE <<ls[1]>> \o DedupByIdLast(Tail(ls))

\* "Deduplicate by listing_id": lines 883-891
RECURSIVE DedupFrom(_, _, _)
DedupFrom(ls, i, seen_ids) ==
    IF i > Len(ls) THEN <<>>
    ELSE IF ls[i].listing_id \in seen_ids THEN DedupFrom(ls, i + 1, seen_ids)
    ELSE <<ls[i]>> \o DedupFrom(ls, i + 1, seen_ids \cup {ls[i].listing_id})

DedupById(ls) == DedupFrom(ls, 1, {})

\* ------------------------------------------------------------------ get_listings: the links

\* soup.find_all('a', href=re.compile(r'/pand/\d+/', re.I))
RECURSIVE AllDigitsThenSlash(_, _)
AllDigitsThenSlash(s, i) ==
    IF i > Len(s) THEN FALSE
    ELSE IF IsDigit(s[i]) THEN AllDigitsThenSlash(s, i + 1)
    ELSE s[i] = "/"

IsListingHref(href) ==
    \E i \in 1..Len(href) :
        /\ MatchAt(LowerStr(href), i, PandPath)
        /\ i + 6 <= Len(href) /\ IsDigit(href[i + 6])
        /\ AllDigitsThenSlash(href, i + 6)

\* "Add tracking to absolute URLs too": lines 747-749
TrackAbsolute(full) ==
    IF StartsWith(full, <<"h", "t", "t", "p">>) /\ Contains(full, PandPath) THEN AppendTracking(full) ELSE full

\* the URL an anchor is remembered by in `seen`: lines 745-749
LinkKey(href) ==
    TrackAbsolute(IF ~StartsWith(href, <<"h", "t", "t", "p">>) THEN normalize_url(href, TRUE) ELSE href)

\* the loop of lines 737-760 over the anchors from position i: the positions kept
RECURSIVE CollectLinks(_, _, _)
CollectLinks(anchors, i, seen_urls) ==
    IF i > Len(anchors) THEN <<>>
    ELSE LET a == anchors[i] IN
         IF ~IsListingHref(a.href) \/ a.href = <<>> THEN CollectLinks(anchors, i + 1, seen_urls)
         ELSE IF LinkKey(a.href) \in seen_urls THEN CollectLinks(anchors, i + 1, seen_urls)
         ELSE IF Strip(get_text(a)) = <<>> THEN CollectLinks(anchors, i + 1, seen_urls)
         ELSE <<i>> \o CollectLinks(anchors, i + 1, seen_urls \cup {LinkKey(a.href)})

\* ------------------------------------------------------------------ fetch_detail_page

\* the mutant of fetch_detail_page: the body of any response is parsed, whatever its status
fetch_detail_page_any_status(outcome) ==
    IF outcome.kind = "response" THEN [ok |-> TRUE, doc |-> outcome.body] ELSE NoDetail

\* fetch_detail_page: the parsed body of a 200 response, None for anything else
fetch_detail_page(outcome) ==
    IF outcome.kind = "response" /\ outcome.status = 200
    THEN [ok |-> TRUE, doc |-> outcome.body]
    ELSE NoDetail

\* ------------------------------------------------------------------ the /api/listings handler

EmptyParsed ==
    [listing_url |-> <<>>, location |-> <<>>, price_raw |-> <<>>, description |-> <<>>,
     listing_type |-> <<>>, photo_candidate |-> <<>>, anchor_name |-> <<>>]

NoOutcome == [kind |-> "none", status |-> 0, body |-> EmptyDoc]

NoCurrent == [parsed |-> EmptyParsed, detail |-> NoDetail, outcome |-> NoOutcome]

NoResponse ==
    [sent |-> FALSE, http_status |-> 0, success |-> FALSE, has_error |-> FALSE,
     error |-> <<>>, has_count |-> FALSE, count |-> 0, listings |-> <<>>,
     cause |-> "none", raised_at |-> 0]

FailedToFetch == <<"F", "a", "i", "l", "e", "d", " ", "t", "o", " ", "f", "e", "t", "c", "h", " ", "h", "t", "t", "p", "s", ":", "/", "/", "i", "r", "r", "e", "s", ".", "b", "e", "/", "t", "e", "-", "k", "o", "o", "p">>

\* the mutant of FailureResponse: a failure is answered with a server error status
FailureResponse500(error, cause, at) ==
    [sent |-> TRUE, http_status |-> 500, success |-> FALSE, has_error |-> TRUE,
     error |-> error, has_count |-> FALSE, count |-> 0, listings |-> <<>>,
     cause |-> cause, raised_at |-> at]

\* {"success": False, "error": ..., "listings": []}, 200
FailureResponse(error, cause, at) ==
    [sent |-> TRUE, http_status |-> 200, success |-> FALSE, has_error |-> TRUE,
     error |-> error, has_count |-> FALSE, count |-> 0, listings |-> <<>>,
     cause |-> cause, raised_at |-> at]

\* {"success": True, "count": len(uniq), "listings": uniq}; Response's default status
SuccessResponse(ls) ==
    [sent |-> TRUE, http_status |-> 200, success |-> TRUE, has_error |-> FALSE,
     error |-> <<>>, has_count |-> TRUE, count |-> Len(ls), listings |-> ls,
     cause |-> "none", raised_at |-> 0]

\* str(e) of the exceptions of the model
ErrorTexts == {<<"t", "i", "m", "e", "d", " ", "o", "u", "t">>}

\* requests.get of the index page: lines 717-729 and the handler of 904-913
FetchIndex ==
    /\ pc = "start"
    /\ IF page.fetch = "response" /\ page.status = 200
       THEN pc' = "links" /\ UNCHANGED response
       ELSE IF page.fetch = "response"
       THEN pc' = "done" /\ response' = FailureResponse(FailedToFetch, "index_status", 0)
       ELSE /\ pc' = "done"
            /\ \E e \in ErrorTexts : response' = FailureResponse(e, "index_exception", 0)
    /\ UNCHANGED <<page, links, idx, cur, assembled, listings, uniq, log, fn_in, fn_out>>

\* lines 731-760: the anchors kept as listing_links
FindLinks ==
    /\ pc = "links"
    /\ links' = CollectLinks(page.anchors, 1, {})
    /\ idx' = 1
    /\ pc' = "loop"
    /\ UNCHANGED <<page, cur, assembled, listings, uniq, response, log, fn_in, fn_out>>

\* the mutant of CurrentLink: the links are taken from the last to the first
CurrentLinkReversed(ls, i) == ls[Len(ls) + 1 - i]

\* "for link in listing_links": the anchor position of the i-th iteration
CurrentLink(ls, i) == ls[i]

\* lines 765-780: the card of the next link
ParseCard ==
    /\ pc = "loop"
    /\ idx <= Len(links)
    /\ LET parsed == parse_main_listing_card(page.anchors[CurrentLink(links, idx)]) IN
       IF parsed.listing_url = <<>>
       THEN idx' = idx + 1 /\ pc' = "loop" /\ UNCHANGED cur
       ELSE idx' = idx /\ pc' = "sleep" /\ cur' = [NoCurrent EXCEPT !.parsed = parsed]
    /\ UNCHANGED <<page, links, assembled, listings, uniq, response, log, fn_in, fn_out>>

\* line 783: time.sleep(0.09)
PoliteDelay ==
    /\ pc = "sleep"
    /\ log' = Append(log, [op |-> "sleep", link |-> CurrentLink(links, idx), url |-> <<>>])
    /\ pc' = "fetch"
    /\ UNCHANGED <<page, links, idx, cur, assembled, listings, uniq, response, fn_in, fn_out>>

\* line 784: the detail page answers with one of the outcomes the site can give
FetchDetail ==
    /\ pc = "fetch"
    /\ \E outcome \in page.site :
          cur' = [cur EXCEPT !.detail = fetch_detail_page(outcome), !.outcome = outcome]
    /\ log' = Append(log, [op |-> "fetch", link |-> CurrentLink(links, idx), url |-> cur.parsed.listing_url])
    /\ pc' = "assemble"
    /\ UNCHANGED <<page, links, idx, assembled, listings, uniq, response, fn_in, fn_out>>

\* what the loop body leaves of one link: the record and whether line 880 kept it
Assembled(link, obj, outcome, parsed) ==
    [link |-> link, obj |-> obj, kept |-> HasContent(obj), outcome |-> outcome, parsed |-> parsed]

\* lines 786-881: the record is built and kept if it has content
AssembleListing ==
    /\ pc = "assemble"
    /\ assembled' = Append(assembled, Assembled(CurrentLink(links, idx),
                                                BuildListing(cur.parsed, cur.detail),
                                                cur.outcome, cur.parsed))
    /\ listings' = IF assembled'[Len(assembled')].kept
                   THEN Append(listings, assembled'[Len(assembled')].obj)
                   ELSE listings
    /\ log' = Append(log, [op |-> "assemble", link |-> CurrentLink(links, idx), url |-> cur.parsed.listing_url])
    /\ idx' = idx + 1
    /\ pc' = "loop"
    /\ cur' = NoCurrent
    /\ UNCHANGED <<page, links, uniq, response, fn_in, fn_out>>

\* lines 883-902: deduplication and the success response
Respond ==
    /\ pc = "loop"
    /\ idx > Len(links)
    /\ uniq' = DedupById(listings)
    /\ response' = SuccessResponse(uniq')
    /\ pc' = "done"
    /\ UNCHANGED <<page, links, idx, cur, assembled, listings, log, fn_in, fn_out>>

\* an exception raised while a card is parsed or a record assembled: nothing in the
\* loop of lines 765-881 catches it, so the handler of lines 904-913 answers
RaiseInListing ==
    /\ \/ pc = "loop" /\ idx <= Len(links)
       \/ pc = "assemble"
    /\ \E e \in ErrorTexts : response' = FailureResponse(e, "listing_exception", idx)
    /\ pc' = "done"
    /\ UNCHANGED <<page, links, idx, cur, assembled, listings, uniq, log, fn_in, fn_out>>

Next ==
    \/ FetchIndex
    \/ FindLinks
    \/ ParseCard
    \/ PoliteDelay
    \/ FetchDetail
    \/ AssembleListing
    \/ Respond
    \/ RaiseInListing

\* ------------------------------------------------------------------ the pages of the model

MaxAnchors == 2

MaxPad == 1

Anchor(href, name, h2present, h2data, h2text, texts, imgs) ==
    [href |-> href, name |-> name, data_name |-> <<>>, h2present |-> h2present,
     h2data |-> h2data, h2text |-> h2text, texts |-> texts, imgs |-> imgs]

Doc1 ==
    [mailtos |-> << <<"m", "a", "i", "l", "t", "o", ":", "k", "a", "s", "p", "e", "r", ".", "d", "e", "v", "o", "s", "@", "i", "r", "r", "e", "s", ".", "b", "e", "?", "s", "u", "b", "j", "e", "c", "t", "=", "I", "n", "f", "o">> >>,
     in_form |-> <<TRUE>>,
     text_email |-> <<>>,
     lis |-> << [key |-> <<"S", "l", "a", "a", "p", "k", "a", "m", "e", "r", "s">>, value |-> <<"5">>],
                [key |-> <<"B", "e", "w", "o", "o", "n", "b", "a", "r", "e", " ", "o", "p", "p", "e", "r", "v", "l", "a", "k", "t", "e">>, value |-> <<"2", "6", "4", " ", "m", "SQ">>] >>,
     imgs |-> << <<"/", "u", "p", "l", "o", "a", "d", "s", "_", "c", "/", "d", "e", "t", "a", "i", "l", ".", "j", "p", "g">> >>]

Doc2 == EmptyDoc

Doc3 ==
    [mailtos |-> << <<"M", "A", "I", "L", "T", "O", ":", "x", "@", "i", "r", "r", "e", "s", ".", "b", "e">>, <<"m", "a", "i", "l", "t", "o", ":", "i", "n", "f", "o", "@", "i", "r", "r", "e", "s", ".", "b", "e">> >>,
     in_form |-> <<FALSE, TRUE>>,
     text_email |-> <<"t", "e", "k", "s", "t", "@", "i", "r", "r", "e", "s", ".", "b", "e">>,
     lis |-> << [key |-> <<"T", "e", "r", "r", "e", "i", "n", " ", "o", "p", "p", "e", "r", "v", "l", "a", "k", "t", "e">>, value |-> <<"8", "0", "7", "3", " ", "m", "SQ">>],
                [key |-> <<"G", "a", "r", "a", "g", "e">>, value |-> <<"2">>],
                [key |-> <<"E", "P", "C">>, value |-> <<" ">>],
                [key |-> <<"R", "e", "n", "o", "v", "a", "t", "i", "e", " ", "b", "o", "u", "w", "j", "a", "a", "r">>, value |-> <<"2", "0", "1", "9">>] >>,
     imgs |-> << <<"l", "o", "g", "o", ".", "s", "v", "g">>, <<"b", "l", "o", "b", ":", "d", "e", "t", "a", "i", "l">> >>]

Doc4 ==
    [mailtos |-> <<>>,
     in_form |-> <<>>,
     text_email |-> <<"j", "a", "n", "_", "p", "e", "e", "t", "e", "r", "s", "@", "i", "r", "r", "e", "s", ".", "b", "e">>,
     lis |-> << [key |-> <<"B", "o", "u", "w", "j", "a", "a", "r">>, value |-> <<"1", "9", "7", "5">>] >>,
     imgs |-> <<>>]

\* the e-mail stands in the text only, and its local part begins with a separator
Doc5 ==
    [mailtos |-> <<>>,
     in_form |-> <<>>,
     text_email |-> <<"-", "j", "a", "n", ".", "s", "m", "i", "t", "@", "i", "r", "r", "e", "s", ".", "b", "e">>,
     lis |-> <<>>,
     imgs |-> <<>>]

Transport == [kind |-> "exception", status |-> 0, body |-> EmptyDoc]

Answer(status, body) == [kind |-> "response", status |-> status, body |-> body]

\* what a detail page of the site can answer
Site == {Transport, Answer(404, Doc1), Answer(200, Doc1), Answer(200, Doc2)}

SiteWide == Site \cup {Answer(200, Doc3), Answer(200, Doc4), Answer(503, Doc3), Answer(200, Doc5)}

CardGent ==
    Anchor(<<"/", "p", "a", "n", "d", "/", "1", "2", "/", "a">>, <<>>, TRUE, <<"G", "e", "n", "t">>, <<"G", "e", "n", "t">>,
           << <<"EUR", " ", "4", "9", "5", ".", "0", "0", "0">>, <<"M", "o", "d", "e", "r", "n", " ", "g", "e", "r", "e", "n", "o", "v", "e", "e", "r", "d", "e", " ", "w", "o", "n", "i", "n", "g">>, <<"D", "w", "e", "l", "l", "i", "n", "g">> >>,
           << <<"/", "u", "p", "l", "o", "a", "d", "s", "_", "c", "/", "i", "m", "g", "1", ".", "j", "p", "g">> >>)

\* the same listing linked with an absolute href
CardGentAbsolute == [CardGent EXCEPT !.href = <<"h", "t", "t", "p", "s", ":", "/", "/", "i", "r", "r", "e", "s", ".", "b", "e", "/", "p", "a", "n", "d", "/", "1", "2", "/", "a">>]

\* the same listing id under another URL, with other content
CardGentAgain ==
    Anchor(<<"/", "p", "a", "n", "d", "/", "1", "2", "/", "b">>, <<>>, TRUE, <<"G", "e", "n", "t">>, <<"G", "e", "n", "t">>, << <<"EUR", " ", "1", ".", "0", "8", "5", ".", "0", "0", "0">> >>, <<>>)

CardOnRequest ==
    Anchor(<<"/", "p", "a", "n", "d", "/", "7", "/", "x">>, <<"L", "7">>, FALSE, <<>>, <<>>, << <<"P", "r", "i", "j", "s", " ", "o", "p", " ", "a", "a", "n", "v", "r", "a", "a", "g">> >>, <<>>)

\* a card with nothing but a type: no location, no price, no description
CardTypeOnly == Anchor(<<"/", "p", "a", "n", "d", "/", "9", "/", "c">>, <<>>, FALSE, <<>>, <<>>, << <<"F", "l", "a", "t">> >>, <<>>)

\* an anchor that is no listing, and a listing anchor without text
LinkContact == Anchor(<<"/", "c", "o", "n", "t", "a", "c", "t">>, <<>>, FALSE, <<>>, <<>>, << <<"C", "o", "n", "t", "a", "c", "t">> >>, <<>>)

CardNoText == Anchor(<<"/", "p", "a", "n", "d", "/", "5", "/", "e">>, <<>>, FALSE, <<>>, <<>>, << <<" ">> >>, << <<"/", "u", "p", "l", "o", "a", "d", "s", "_", "c", "/", "e", ".", "j", "p", "g">> >>)

Cards ==
    {CardGent, CardGentAbsolute, CardGentAgain, CardOnRequest, CardTypeOnly, LinkContact, CardNoText}

SeqsUpTo(S, n) == UNION {[1..k -> S] : k \in 0..n}

IndexPage(fetch, status, anchors, site) ==
    [fetch |-> fetch, status |-> status, anchors |-> anchors, site |-> site]

\* the index page answers 200 with up to MaxAnchors anchors, or fails
Pages ==
    {IndexPage("response", 200, a, Site) : a \in SeqsUpTo(Cards, MaxAnchors)}
        \cup {IndexPage("response", 404, <<CardGent>>, Site),
              IndexPage("response", 500, <<CardGent, CardOnRequest>>, Site),
              IndexPage("exception", 0, <<CardGent>>, Site)}

WideHrefs ==
    { <<"/", "p", "a", "n", "d", "/", "1", "2", "/", "a">>, <<"h", "t", "t", "p", "s", ":", "/", "/", "i", "r", "r", "e", "s", ".", "b", "e", "/", "p", "a", "n", "d", "/", "1", "2", "/", "a", "?", "x", "=", "1">>, <<"/", "/", "i", "r", "r", "e", "s", ".", "b", "e", "/", "p", "a", "n", "d", "/", "3", "/", "x">>,
      <<"w", "w", "w", ".", "i", "r", "r", "e", "s", ".", "b", "e", "/", "p", "a", "n", "d", "/", "5", "/", "z">>, <<" ", "/", "p", "a", "n", "d", "/", "6", "/", "q", " ">>, <<"H", "T", "T", "P", "S", ":", "/", "/", "i", "r", "r", "e", "s", ".", "b", "e", "/", "p", "a", "n", "d", "/", "2", "/", "u">>,
      <<"h", "t", "t", "p", ":", "/", "p", "a", "n", "d", "/", "8", "/", "t">>, <<"j", "a", "v", "a", "s", "c", "r", "i", "p", "t", ":", "g", "o", "(", "'", "/", "p", "a", "n", "d", "/", "9", "/", "'", ")">> }

WideHeadings ==
    { [present |-> FALSE, data |-> <<>>, text |-> <<>>],
      [present |-> TRUE, data |-> <<"G", "e", "n", "t">>, text |-> <<"G", "e", "n", "t">>],
      [present |-> TRUE, data |-> <<>>, text |-> <<" ", "S", "i", "n", "t", "-", "M", "a", "r", "t", "e", "n", "s", "-", "L", "a", "t", "e", "m", " ">>] }

WideTexts ==
    { << <<"EUR", " ", "4", "9", "5", ".", "0", "0", "0">>, <<"M", "o", "d", "e", "r", "n", " ", "g", "e", "r", "e", "n", "o", "v", "e", "e", "r", "d", "e", " ", "w", "o", "n", "i", "n", "g">>, <<"D", "w", "e", "l", "l", "i", "n", "g">> >>,
      << <<"P", "r", "i", "j", "s", " ", "o", "p", " ", "a", "a", "n", "v", "r", "a", "a", "g">> >>,
      << <<"p", "r", "i", "j", "s", " ", "o", "p", " ", "A", "A", "N", "V", "R", "A", "A", "G">>, <<"V", "i", "l", "l", "a", " ", "m", "e", "t", " ", "t", "u", "i", "n">> >>,
      << <<"C", "o", "m", "p", "r", "o", "m", "i", "s", " ", "i", "n", " ", "o", "p", "m", "a", "a", "k">>, <<"F", "l", "a", "t">> >>,
      << <<"F", "l", "a", "t">> >>,
      << <<"V", "i", "l", "l", "a", " ", "m", "e", "t", " ", "t", "u", "i", "n">> >>,
      << <<"L", "a", "t", "e", "m", " ", "BAR", " ", "EUR">> >>,
      << <<"C", "o", "m", "EUR", "p", "r", "o", "m", "i", "s", " ", "1", "2">> >>,
      << <<"EUR">>, <<"G", "r", "o", "n", "d">> >>,
      << <<"EUR", " ", "4", "9", "5", ".", "0", "0", "0">>, <<"L", "o", "f", "t">>, <<"P", "r", "i", "j", "s", " ", "o", "p", " ", "a", "a", "n", "v", "r", "a", "a", "g">> >>,
      <<>> }

AnchorNames == {<<>>, <<"L", "7">>}

WideImages ==
    { <<>>,
      << <<"/", "u", "p", "l", "o", "a", "d", "s", "_", "c", "/", "i", "m", "g", "1", ".", "j", "p", "g">> >>,
      << <<"d", "a", "t", "a", ":", "i", "m", "a", "g", "e", "/", "p", "n", "g", ";", "b", "a", "s", "e", "6", "4", ",", "A", "A", "A">>, <<"/", "i", "m", "g", "/", "l", "o", "g", "o", ".", "s", "v", "g">> >>,
      << <<"i", "c", "o", "n", ".", "b", "m", "p">>, <<"/", "/", "c", "d", "n", ".", "i", "r", "r", "e", "s", ".", "b", "e", "/", "p", ".", "w", "e", "b", "p", "?", "w", "=", "3">> >>,
      << <<"b", "l", "o", "b", ":", "c", "a", "r", "d">> >> }

\* every href with every image list, and every heading with every text
WideAnchors ==
    {Anchor(h, n, TRUE, <<"G", "e", "n", "t">>, <<"G", "e", "n", "t">>, <<<<"EUR", " ", "5">>>>, i) :
        h \in WideHrefs, n \in AnchorNames, i \in WideImages}
      \cup {Anchor(h, n, c.present, c.data, c.text, t, <<>>) :
                h \in {<<"/", "p", "a", "n", "d", "/", "1", "2", "/", "a">>,
                       <<"/", "p", "a", "n", "d", "/", "x", "/", "p", "a", "n", "d", "/", "4", "/">>},
                n \in AnchorNames, c \in WideHeadings, t \in WideTexts}

\* index pages with one anchor, of every shape of the model
PagesWide ==
    {IndexPage("response", 200, <<a>>, SiteWide) : a \in WideAnchors}
        \cup {IndexPage("response", 404, <<CardGent>>, SiteWide),
              IndexPage("exception", 0, <<CardGent>>, SiteWide)}

InitWith(pages) ==
    /\ pc = "start"
    /\ page \in pages
    /\ links = <<>>
    /\ idx = 0
    /\ cur = NoCurrent
    /\ assembled = <<>>
    /\ listings = <<>>
    /\ uniq = <<>>
    /\ response = NoResponse
    /\ log = <<>>
    /\ fn_in = <<>>
    /\ fn_out = <<>>

Init == InitWith(Pages)

InitWide == InitWith(PagesWide)

\* one run of the handler on an index page of up to MaxAnchors anchors
Spec == Init /\ [][Next]_vars

\* one run of the handler on a one-anchor index page of any shape
SpecWide == InitWide /\ [][Next]_vars

\* ------------------------------------------------------------------ format_price_string alone

\* whitespace of up to MaxPad characters
Pads == SeqsUpTo({" ", "NBSP"}, MaxPad)

PriceBefore == Pads \cup { <<"V", "a", "n", "a", "f", " ">>, <<"1", "2", " ">> }

PriceAfter == Pads \cup { <<" ", "3">>, <<" ", "(", "e", "x", "c", "l", ".", " ", "b", "t", "w", ")">> }

PriceCores ==
    { <<>>, <<"P", "r", "i", "j", "s", " ", "o", "p", " ", "a", "a", "n", "v", "r", "a", "a", "g">>, <<"p", "r", "i", "j", "s", " ", "o", "p", " ", "a", "a", "n", "v", "r", "a", "a", "g">>, <<"P", "R", "I", "J", "S", " ", "O", "P", " ", "A", "A", "N", "V", "R", "A", "A", "G">>,
      <<"P", "r", "i", "j", "s", " ", " ", "o", "p", " ", "a", "a", "n", "v", "r", "a", "a", "g">>, <<"P", "r", "i", "j", "s", " ", "o", "p", "NBSP", "a", "a", "n", "v", "r", "a", "a", "g">>, <<"P", "r", "i", "j", "s", " ", "o", "p", " ", "a", "a", "n", "EUR", "v", "r", "a", "a", "g">>,
      <<"C", "o", "m", "p", "r", "o", "m", "i", "s", " ", "i", "n", " ", "o", "p", "m", "a", "a", "k">>, <<"c", "o", "m", "p", "r", "o", "m", "i", "s">>, <<"C", "o", "m", "EUR", "p", "r", "o", "m", "i", "s">>,
      <<"EUR", " ", "1", ".", "0", "8", "5", ".", "0", "0", "0">>, <<"EUR", "4", "9", "5", "0", "0", "0">>, <<"1", " ", "0", "8", "5", " ", "0", "0", "0", " ", "EUR">>, <<"&", "e", "u", "r", "o", ";", " ", "9", "5", "0">>, <<"0", "0", "7">>, <<"EUR", " ", "1", ".", "0", "0", "0">>,
      <<"EUR">>, <<"T", "e", " ", "k", "o", "o", "p">>, <<"EUR", " ", "5">> }

PriceInputs == {b \o c \o a : b \in PriceBefore, c \in PriceCores, a \in PriceAfter}

InitPrice ==
    /\ pc = "fn"
    /\ fn_in \in PriceInputs
    /\ fn_out = <<>>
    /\ page = IndexPage("exception", 0, <<>>, {})
    /\ links = <<>>
    /\ idx = 0
    /\ cur = NoCurrent
    /\ assembled = <<>>
    /\ listings = <<>>
    /\ uniq = <<>>
    /\ response = NoResponse
    /\ log = <<>>

FormatPrice ==
    /\ pc = "fn"
    /\ fn_out' = format_price_string(fn_in)
    /\ pc' = "fn_done"
    /\ UNCHANGED <<page, links, idx, cur, assembled, listings, uniq, response, log, fn_in>>

NextPrice == FormatPrice

\* format_price_string applied to one raw price
SpecPrice == InitPrice /\ [][NextPrice]_vars

\* ------------------------------------------------------------------ the claims

Finished == pc = "done" /\ response.sent

Succeeded == Finished /\ response.success

IndexFailed == page.fetch # "response" \/ page.status # 200

DetailFailed(outcome) == outcome.kind # "response" \/ outcome.status # 200

Emitted == {response.listings[m] : m \in 1..Len(response.listings)}

\* C1: in a successful run no two emitted records share a listing_id, and of the kept
\* records that share one exactly the first in encounter order is emitted.
C1_UniqueIdsFirstWins ==
    Succeeded =>
        LET out == response.listings IN
        /\ \A m, n \in 1..Len(out) : m # n => out[m].listing_id # out[n].listing_id
        /\ \A k \in 1..Len(listings) :
              (\A j \in 1..(k - 1) : listings[j].listing_id # listings[k].listing_id)
                  => \E m \in 1..Len(out) : out[m] = listings[k]
        /\ \A m \in 1..Len(out) :
              \E k \in 1..Len(listings) :
                  /\ out[m] = listings[k]
                  /\ \A j \in 1..(k - 1) : listings[j].listing_id # listings[k].listing_id

\* two kept records with one listing_id and different content, the first one emitted alone
C1_Witness ==
    /\ Succeeded
    /\ Len(listings) = 2
    /\ listings[1].listing_id = listings[2].listing_id
    /\ listings[1] # listings[2]
    /\ response.listings = <<listings[1]>>

\* C2: an exception raised while one listing is parsed or assembled skips only that
\* listing: the response reports success and carries the listings kept before it.
C2_ExceptionSkipsOneListing ==
    (Finished /\ response.cause = "listing_exception") =>
        /\ response.success
        /\ \A k \in 1..Len(listings) :
              \E m \in 1..Len(response.listings) :
                  response.listings[m].listing_id = listings[k].listing_id

\* C3: a listing whose detail fetch failed (exception or a status other than 200) is
\* assembled with no contact label, no contact e-mail, no attribute and no fallback
\* photo, it is kept exactly when its card has a location, a price or a description,
\* and the run goes on: a successful run has assembled every link, in order.
C3_DetailFailureDegradesOneListing ==
    /\ \A k \in 1..Len(assembled) :
          LET a == assembled[k] IN
          /\ a.link = links[k]
          /\ DetailFailed(a.outcome) =>
                /\ a.obj.Button2_Label = <<>>
                /\ a.obj.Button2_email = <<>>
                /\ a.obj.details = <<>>
                /\ (a.parsed.photo_candidate = <<>> => a.obj.photo_url = <<>>)
                /\ a.kept <=> (a.parsed.location # <<>> \/ a.parsed.price_raw # <<>>
                                  \/ a.parsed.description # <<>>)
                /\ Succeeded /\ a.kept =>
                      \E r \in Emitted : r.listing_id = a.obj.listing_id
    /\ Succeeded => Len(assembled) = Len(links)

\* the first listing's detail page answers 404 with a body, the second one's 200: both
\* records are emitted, the first one without contact, attributes or photo
C3_Witness ==
    /\ Succeeded
    /\ Len(assembled) = 2
    /\ assembled[1].outcome.kind = "response" /\ assembled[1].outcome.status = 404
    /\ assembled[1].outcome.body.mailtos # <<>>
    /\ assembled[1].parsed.photo_candidate = <<>>
    /\ assembled[1].obj.Button2_email = <<>>
    /\ assembled[2].obj.Button2_email # <<>>
    /\ response.listings = <<assembled[1].obj, assembled[2].obj>>

\* C4: a failed index fetch (exception or a status other than 200) ends the run with no
\* detail fetch and one answer of success = false, an error string and no listings;
\* every answer of the endpoint has HTTP status 200.
C4_IndexFailureAndStatus200 ==
    /\ response.sent => response.http_status = 200
    /\ IndexFailed =>
          /\ log = <<>> /\ assembled = <<>>
          /\ pc \in {"start", "done"}
          /\ pc = "done" =>
                /\ response.sent /\ ~response.success /\ response.has_error
                /\ response.listings = <<>>

\* the index request raised: the run is over with the failure answer
C4_Witness ==
    /\ pc = "done"
    /\ page.fetch = "exception"
    /\ response.sent /\ ~response.success /\ response.http_status = 200

\* C5: an emitted record has a price-inquiry label and target, both non-empty, exactly
\* when its price is the on-request value; for every other price both are empty.
C5_InquiryIffOnRequest ==
    \A r \in Emitted :
        /\ r.price = OnRequestPrice => (r.Button3_Label # <<>> /\ r.Button3_Value # <<>>)
        /\ r.price # OnRequestPrice => (r.Button3_Label = <<>> /\ r.Button3_Value = <<>>)

\* an on-request record (from a raw price in another letter case) and, in another run,
\* a record with a numeric price, are both emitted
C5_Witness ==
    \E r \in Emitted :
        /\ r.price = OnRequestPrice
        /\ assembled[1].parsed.price_raw # OnRequestPrice
        /\ r.Button3_Label # <<>> /\ r.Button3_Value # <<>>

IsSchemeChar(c) == IsAsciiLetter(c) \/ IsDigit(c) \/ c \in {"+", "-", "."}

\* scheme "://" host: a scheme of letters, then a non-empty host
IsAbsoluteUrl(u) ==
    \E i \in 2..Len(u) :
        /\ MatchAt(u, i, <<":", "/", "/">>)
        /\ IsAsciiLetter(u[1])
        /\ \A j \in 1..(i - 1) : IsSchemeChar(u[j])
        /\ i + 3 <= Len(u)
        /\ u[i + 3] \notin {"/", "?", "#"}

\* C7: listing_url and photo_url of every emitted record are empty or absolute
\* (a scheme and a host).
C7_UrlsAbsoluteOrEmpty ==
    \A r \in Emitted :
        /\ r.listing_url = <<>> \/ IsAbsoluteUrl(r.listing_url)
        /\ r.photo_url = <<>> \/ IsAbsoluteUrl(r.photo_url)

FetchEvents == {n \in 1..Len(log) : log[n].op = "fetch"}

\* the anchor position of the first kept record that carries the listing_id of r
SourceLink(r) ==
    LET ks == {k \in 1..Len(assembled) :
                  assembled[k].kept /\ assembled[k].obj.listing_id = r.listing_id}
    IN  assembled[CHOOSE k \in ks : \A j \in ks : k <= j].link

\* C8: detail pages are fetched one at a time in the order of the anchors on the index
\* page, each fetch right after the delay for its listing and only after the listing
\* fetched before it was assembled; the emitted records keep the order of their anchors.
C8_SequentialInDiscoveryOrder ==
    /\ \A n \in FetchEvents :
          n >= 2 /\ log[n - 1].op = "sleep" /\ log[n - 1].link = log[n].link
    /\ \A m, n \in FetchEvents :
          m < n =>
            /\ log[m].link < log[n].link
            /\ \E q \in (m + 1)..(n - 1) : log[q].op = "assemble" /\ log[q].link = log[m].link
    /\ Succeeded =>
          \A m, n \in 1..Len(response.listings) :
              m < n => SourceLink(response.listings[m]) < SourceLink(response.listings[n])

\* two listings fetched and emitted
C8_Witness ==
    /\ Succeeded
    /\ Cardinality(FetchEvents) = 2
    /\ Len(response.listings) = 2

\* the normalized value the page gives for a detail key: that of the last item whose
\* label matches the key and whose value is not empty
ValueOnPage(doc, key) ==
    LET hits == {i \in 1..Len(doc.lis) :
                    MatchDetailKey(Strip(doc.lis[i].key)) = key
                        /\ normalize_text(doc.lis[i].value) # <<>>}
    IN  IF hits = {} THEN <<>>
        ELSE normalize_text(doc.lis[CHOOSE i \in hits : \A j \in hits : j <= i].value)

KeyWritten(details, key) == Contains(details, key \o <<":", " ">>)

\* C9 as claimed: the attributes of every emitted record hold each of the ten keys,
\* with an empty value when the key was not matched or the detail page was unavailable.
C9_AllTenKeysPresent ==
    \A r \in Emitted : \A key \in DetailKeySet : KeyWritten(r.details, key)

\* C9 as amended: the details string of a record holds "key: value" for exactly the keys
\* that the fetched detail page gives a non-empty normalized value; the other keys,
\* and every key of a listing whose detail page was unavailable, are left out.
C9_OnlyValuedKeysWritten ==
    \A k \in 1..Len(assembled) :
        LET a == assembled[k] IN
        \A key \in DetailKeySet :
            LET value == IF DetailFailed(a.outcome) THEN <<>> ELSE ValueOnPage(a.outcome.body, key) IN
            /\ KeyWritten(a.obj.details, key) <=> value # <<>>
            /\ value # <<>> => Contains(a.obj.details, key \o <<":", " ">> \o value)

\* an emitted record with some keys written and the unmatched ones left out
C9_Witness ==
    \E r \in Emitted :
        /\ KeyWritten(r.details, <<"T", "e", "r", "r", "e", "i", "n", "_", "o", "p", "p", "e", "r", "v", "l", "a", "k", "t", "e">>)
        /\ KeyWritten(r.details, <<"R", "e", "n", "o", "v", "a", "t", "i", "e", "j", "a", "a", "r">>)
        /\ ~KeyWritten(r.details, <<"E", "P", "C">>)
        /\ ~KeyWritten(r.details, <<"B", "o", "u", "w", "j", "a", "a", "r">>)

RECURSIVE StripLeadingZeros(_)
StripLeadingZeros(d) == IF Len(d) > 1 /\ d[1] = "0" THEN StripLeadingZeros(Tail(d)) ELSE d

\* the digits in groups of three from the right, separated by "."
RECURSIVE GroupThrees(_)
GroupThrees(d) ==
    IF Len(d) <= 3 THEN d
    ELSE GroupThrees(SubSeq(d, 1, Len(d) - 3)) \o <<".">> \o SubSeq(d, Len(d) - 2, Len(d))

\* the classification of the claim, on the normalized input
ClassifiedPrice(raw) ==
    LET s == normalize_text(raw)
        digits == SelectSeq(RemoveChar(s, "EUR"), IsDigit)
    IN  IF ReSearchI(PrijsOpAanvraag, s) THEN OnRequestPrice
        ELSE IF ReSearchI(Compromis, s) THEN CompromisInOpmaak
        ELSE IF digits # <<>> THEN <<"EUR", " ">> \o GroupThrees(StripLeadingZeros(digits))
        ELSE s

\* C10: the parser returns the first matching class of: on request, under compromise,
\* the digits as a euro amount grouped in threes, the normalized text (or empty).
C10_FirstMatchWins == pc = "fn_done" => fn_out = ClassifiedPrice(fn_in)

\* ------------------------------------------------------------------ the helpers alone

\* one call of a helper: the function, its text argument, its flag, its list argument
\* and its document argument (the ones the function does not take are empty)
Call(op, text, flag, list, doc) ==
    [op |-> op, text |-> text, flag |-> flag, list |-> list, doc |-> doc]

UrlPads == SeqsUpTo({" ", "'", "\""}, MaxPad)

UrlCores ==
    { <<>>, <<"/", "/", "c", "d", "n", ".", "i", "r", "r", "e", "s", ".", "b", "e", "/", "i", "m", "g", ".", "j", "p", "g">>, <<"/", "/", "i", "r", "r", "e", "s", ".", "b", "e", "/", "p", "a", "n", "d", "/", "3", "/", "x", "?", "a", "=", "1">>, <<"/", "p", "a", "n", "d", "/", "1", "2", "3", "/", "x">>,
      <<"/", "p", "a", "n", "d", "/", "1", "2", "3", "/", "x", "?", "a", "=", "1">>, <<"/", "t", "e", "-", "k", "o", "o", "p">>, <<"h", "t", "t", "p", "s", ":", "/", "/", "i", "r", "r", "e", "s", ".", "b", "e", "/", "p", "a", "n", "d", "/", "1", "/", "x">>,
      <<"H", "T", "T", "P", ":", "/", "/", "i", "r", "r", "e", "s", ".", "b", "e", "/", "p", "a", "n", "d", "/", "2", "/", "u", "?", "b">>, <<"h", "t", "t", "p", ":", "/", "/", "i", "r", "r", "e", "s", ".", "b", "e", "/", "c", "o", "n", "t", "a", "c", "t">>, <<"w", "w", "w", ".", "i", "r", "r", "e", "s", ".", "b", "e", "/", "p", "a", "n", "d", "/", "2", "/", "y">>,
      <<"w", "w", "w", ".", "i", "r", "r", "e", "s", ".", "b", "e">>, <<"u", "p", "l", "o", "a", "d", "s", "_", "c", "/", "a", ".", "j", "p", "g">>, <<"p", "a", "n", "d", "/", "3", "/", "z">>, <<"m", "a", "i", "l", "t", "o", ":", "a", "@", "i", "r", "r", "e", "s", ".", "b", "e">>,
      <<"j", "a", "v", "a", "s", "c", "r", "i", "p", "t", ":", "g", "o", "(", "'", "/", "p", "a", "n", "d", "/", "9", "/", "'", ")">>, <<"f", "t", "p", ":", "/", "/", "f", "i", "l", "e", "s", ".", "i", "r", "r", "e", "s", ".", "b", "e", "/", "p", "a", "n", "d", "/", "4", "/">>, <<"a", "/", "b", "?", "c", ":", "d">>, <<"/">> }

UrlCalls ==
    {Call("normalize_url", b \o c \o a, t, <<>>, EmptyDoc) :
        b \in UrlPads, c \in UrlCores, a \in UrlPads, t \in BOOLEAN}

TextCores ==
    { <<>>, <<"G", "e", "n", "t">>, <<" ">>, <<"a", " ", " ", "b">>, <<"&">>, <<"a", "m", "p", ";">>, <<"n", "b", "s", "p", ";">>, <<"&", "a", "m", "p", ";">>, <<"&", "n", "b", "s", "p", ";">>,
      <<"2", "6", "4", " ", "m", "&", "#", "1", "7", "8", ";">>, <<"&", "e", "u", "r", "o", ";", " ", "5">>, <<"\\">>, <<"u", "0", "0", "b", "2">>, <<"SQ">>, <<"\\", "x">>, <<"\\", "n">>,
      <<"NBSP">>, <<"TAB", "x">>, <<"x", " ", " ", " ", "y">> }

\* every text made of two of the pieces
TextCalls ==
    {Call("normalize_text", a \o b, FALSE, <<>>, EmptyDoc) : a \in TextCores, b \in TextCores}

MaxCands == 2

ImageSrcs ==
    { <<>>, <<"d", "a", "t", "a", ":", "i", "m", "a", "g", "e", "/", "p", "n", "g", ";", "b", "a", "s", "e", "6", "4", ",", "A", "A", "A">>, <<"/", "i", "m", "g", "/", "l", "o", "g", "o", ".", "s", "v", "g">>, <<"/", "u", "p", "l", "o", "a", "d", "s", "_", "c", "/", "i", "m", "g", "1", ".", "j", "p", "g">>,
      <<"/", "s", "t", "a", "t", "i", "c", "/", "p", ".", "g", "i", "f">>, <<"/", "u", "p", "l", "o", "a", "d", "s", "/", "d", "o", "c">>, <<"/", "/", "c", "d", "n", ".", "i", "r", "r", "e", "s", ".", "b", "e", "/", "p", ".", "w", "e", "b", "p", "?", "w", "=", "3">>, <<"i", "c", "o", "n", ".", "b", "m", "p">>,
      <<"/", "p", "a", "n", "d", "e", "n", "/", "a", ".", "j", "p", "e", "g", ".", "b", "a", "k">> }

ImageCalls ==
    {Call(op, <<>>, FALSE, cands, EmptyDoc) :
        op \in {"find_photo_on_element", "find_landscape_image_from_detail"},
        cands \in SeqsUpTo(ImageSrcs, MaxCands)}

MaxLinks == 2

\* a mail-link of a detail page: its href, and whether it stands inside the contact form
MailLinks ==
    {[href |-> h, in_form |-> f] :
        h \in { <<"m", "a", "i", "l", "t", "o", ":", "k", "a", "s", "p", "e", "r", ".", "d", "e", "v", "o", "s", "@", "i", "r", "r", "e", "s", ".", "b", "e", "?", "s", "u", "b", "j", "e", "c", "t", "=", "I", "n", "f", "o">>, <<"m", "a", "i", "l", "t", "o", ":", "i", "n", "f", "o", "@", "i", "r", "r", "e", "s", ".", "b", "e">>,
                <<"M", "A", "I", "L", "T", "O", ":", "x", "@", "i", "r", "r", "e", "s", ".", "b", "e">>, <<"m", "a", "i", "l", "t", "o", ":", "?", "s", "u", "b", "j", "e", "c", "t", "=", "x">> },
        f \in BOOLEAN}

DocWithLinks(ls, text_email) ==
    [mailtos |-> [i \in 1..Len(ls) |-> ls[i].href],
     in_form |-> [i \in 1..Len(ls) |-> ls[i].in_form],
     text_email |-> text_email, lis |-> <<>>, imgs |-> <<>>]

ContactCalls ==
    {Call("extract_contact_and_email_from_detail", <<>>, FALSE, <<>>, DocWithLinks(ls, t)) :
        ls \in SeqsUpTo(MailLinks, MaxLinks), t \in {<<>>, <<"j", "a", "n", "_", "p", "e", "e", "t", "e", "r", "s", "@", "i", "r", "r", "e", "s", ".", "b", "e">>}}

FnCalls == UrlCalls \cup TextCalls \cup ImageCalls \cup ContactCalls

InitFn ==
    /\ pc = "fn"
    /\ fn_in \in FnCalls
    /\ fn_out = <<>>
    /\ page = IndexPage("exception", 0, <<>>, {})
    /\ links = <<>>
    /\ idx = 0
    /\ cur = NoCurrent
    /\ assembled = <<>>
    /\ listings = <<>>
    /\ uniq = <<>>
    /\ response = NoResponse
    /\ log = <<>>

\* the call returns: fn_out is the value returned
Return(value) ==
    /\ fn_out' = value
    /\ pc' = "fn_done"
    /\ UNCHANGED <<page, links, idx, cur, assembled, listings, uniq, response, log, fn_in>>

NormalizeUrl ==
    /\ pc = "fn" /\ fn_in.op = "normalize_url"
    /\ Return(normalize_url(fn_in.text, fn_in.flag))

NormalizeText ==
    /\ pc = "fn" /\ fn_in.op = "normalize_text"
    /\ Return(normalize_text(fn_in.text))

FindPhoto ==
    /\ pc = "fn" /\ fn_in.op = "find_photo_on_element"
    /\ Return(find_photo_on_element(fn_in.list))

FindLandscape ==
    /\ pc = "fn" /\ fn_in.op = "find_landscape_image_from_detail"
    /\ Return(find_landscape_image_from_detail(fn_in.list))

ExtractContact ==
    /\ pc = "fn" /\ fn_in.op = "extract_contact_and_email_from_detail"
    /\ Return(extract_contact_and_email_from_detail(fn_in.doc))

NextFn ==
    \/ NormalizeUrl
    \/ NormalizeText
    \/ FindPhoto
    \/ FindLandscape
    \/ ExtractContact

\* one call of one helper on one input
SpecFn == InitFn /\ [][NextFn]_vars

Returned(op) == pc = "fn_done" /\ fn_in.op = op

\* ------------------------------------------------------------------ C11

\* s without the characters of set at its two ends
Trim(s, set) ==
    LET keep == {i \in 1..Len(s) : s[i] \notin set} IN
    IF keep = {} THEN <<>>
    ELSE SubSeq(s, CHOOSE i \in keep : \A j \in keep : i <= j,
                   CHOOSE i \in keep : \A j \in keep : j <= i)

\* the rules of the claim on the stripped text t, in their order
UrlRules(t) ==
    << [applies |-> Len(t) >= 2 /\ SubSeq(t, 1, 2) = <<"/", "/">>, gives |-> <<"h", "t", "t", "p", "s", ":">> \o t],
       [applies |-> Len(t) >= 1 /\ t[1] = "/", gives |-> SiteOrigin \o t],
       [applies |-> \/ (Len(t) >= 7 /\ LowerStr(SubSeq(t, 1, 7)) = <<"h", "t", "t", "p", ":", "/", "/">>)
                    \/ (Len(t) >= 8 /\ LowerStr(SubSeq(t, 1, 8)) = <<"h", "t", "t", "p", "s", ":", "/", "/">>),
        gives |-> t],
       [applies |-> Len(t) >= 4 /\ SubSeq(t, 1, 4) = <<"w", "w", "w", ".">>, gives |-> <<"h", "t", "t", "p", "s", ":", "/", "/">> \o t],
       [applies |-> \A i \in 1..Len(t) : t[i] # ":",
        gives |-> SiteOrigin \o <<"/">> \o LStripSet(t, {"/"})],
       [applies |-> TRUE, gives |-> t] >>

FirstMatch(rules) ==
    rules[CHOOSE k \in 1..Len(rules) : rules[k].applies /\ \A j \in 1..(k - 1) : ~rules[j].applies].gives

\* the tracking parameter on a resolved URL that holds the listing path "/pand/"
Tracked(resolved, tracking) ==
    IF tracking /\ Contains(resolved, PandPath)
    THEN resolved \o (IF \E i \in 1..Len(resolved) : resolved[i] = "?" THEN <<"&">> ELSE <<"?">>)
            \o <<"o", "r", "i", "g", "i", "n", "=", "h", "a", "b", "i", "c", "h", "a", "t">>
    ELSE resolved

ResolvedUrl(src, tracking) ==
    IF src = <<>> THEN <<>>
    ELSE Tracked(FirstMatch(UrlRules(Trim(Trim(src, {" ", "TAB", "LF", "NBSP"}), {"'", "\""}))), tracking)

\* C11: normalize_url gives the empty string for an empty input; otherwise it strips the
\* surrounding whitespace, then the surrounding quotes, and applies the first rule that
\* matches of: "//" gets "https:" prefixed, "/" gets the site origin prefixed, an
\* http(s):// URL is unchanged, "www." gets "https://" prefixed, a text without colon is
\* joined to the site origin and "/" without its leading slashes, anything else is
\* unchanged; with tracking requested, a result that holds "/pand/" gets
\* "origin=habichat" appended after "&" if it has a "?" and after "?" otherwise.
C11_RulesInOrderThenTracking ==
    Returned("normalize_url") => fn_out = ResolvedUrl(fn_in.text, fn_in.flag)

\* a quoted root-relative listing path with a query string was resolved against the site
\* origin and given the tracking parameter after "&"
C11_Witness ==
    /\ Returned("normalize_url")
    /\ fn_in.flag
    /\ fn_in.text = <<"'", "/", "p", "a", "n", "d", "/", "1", "2", "3", "/", "x", "?", "a", "=", "1", "'">>
    /\ fn_out = <<"h", "t", "t", "p", "s", ":", "/", "/", "i", "r", "r", "e", "s", ".", "b", "e", "/", "p", "a", "n", "d", "/", "1", "2", "3", "/", "x", "?", "a", "=", "1", "&", "o", "r", "i", "g", "i", "n", "=", "h", "a", "b", "i", "c", "h", "a", "t">>

\* ------------------------------------------------------------------ C12

\* C12 as claimed: normalizing a normalized text changes nothing.
C12_Idempotent == Returned("normalize_text") => normalize_text(fn_out) = fn_out

\* C12 as amended: normalizing a normalized text changes nothing when the normalized
\* text holds no "&" and none of the markers "\u" and "\x".
C12_IdempotentOnDecodedText ==
    (Returned("normalize_text") /\ ~HasChar(fn_out, "&")
        /\ ~Contains(fn_out, <<"\\", "u">>) /\ ~Contains(fn_out, <<"\\", "x">>))
      => normalize_text(fn_out) = fn_out

\* a text with an entity, a non-breaking space and a run of spaces was normalized to a
\* text other than the input that holds no "&" and no marker
C12_Witness ==
    /\ Returned("normalize_text")
    /\ fn_in.text = <<"2", "6", "4", " ", "m", "&", "#", "1", "7", "8", ";", "a", " ", " ", "b">>
    /\ fn_out = <<"2", "6", "4", " ", "m", "SQ", "a", " ", "b">>

\* ------------------------------------------------------------------ C13

IsDataUri(u) == Len(u) >= 5 /\ SubSeq(u, 1, 5) = <<"d", "a", "t", "a", ":">>

HoldsSvg(u) == \E i \in 1..Len(u) : i + 2 <= Len(u) /\ LowerStr(SubSeq(u, i, i + 2)) = <<"s", "v", "g">>

\* the normalized candidates that are not empty, not inline data and hold no "svg"
Remaining(cands) ==
    SelectSeq([i \in 1..Len(cands) |-> normalize_url(cands[i], FALSE)],
              LAMBDA u : u # <<>> /\ ~IsDataUri(u) /\ ~HoldsSvg(u))

\* e occurs in u (in any letter case), at its end when at_end, where the end of u is
\* also the place before a "?"
HoldsExt(u, e, at_end) ==
    \E i \in 1..Len(u) :
        /\ i + Len(e) - 1 <= Len(u)
        /\ LowerStr(SubSeq(u, i, i + Len(e) - 1)) = e
        /\ at_end => (i + Len(e) - 1 = Len(u) \/ u[i + Len(e)] = "?")

\* u ends in one of the raster extensions of the card search
EndsInRaster(u) ==
    \E e \in {<<".", "j", "p", "g">>, <<".", "j", "p", "e", "g">>, <<".", "p", "n", "g">>, <<".", "w", "e", "b", "p">>, <<".", "g", "i", "f">>} : HoldsExt(u, e, TRUE)

\* u holds one of the raster extensions of the detail search, anywhere
HoldsRaster(u) ==
    \E e \in {<<".", "j", "p", "g">>, <<".", "j", "p", "e", "g">>, <<".", "p", "n", "g">>, <<".", "w", "e", "b", "p">>} : HoldsExt(u, e, FALSE)

\* the first of rest whose position is in good, else the first of rest, else nothing
Chosen(rest, good) ==
    IF good # {} THEN rest[CHOOSE i \in good : \A j \in good : i <= j]
    ELSE IF rest = <<>> THEN <<>>
    ELSE rest[1]

\* an uploads, site-assets or property path OR a raster extension at the end
ChosenByEither(rest) ==
    Chosen(rest, {i \in 1..Len(rest) : AnyContainsI(rest[i], UploadMarkersCard) \/ EndsInRaster(rest[i])})

\* an uploads, site-assets or property path AND a raster extension somewhere
ChosenByBoth(rest) ==
    Chosen(rest, {i \in 1..Len(rest) : AnyContainsI(rest[i], UploadMarkersDetail) /\ HoldsRaster(rest[i])})

ImageSearchReturned ==
    Returned("find_photo_on_element") \/ Returned("find_landscape_image_from_detail")

\* C13 as claimed: both image searches return no inline-data URI and no URL that holds
\* "svg", and return the first remaining candidate that matches an uploads, site-assets
\* or property path or ends in a raster extension, else the first remaining candidate,
\* else nothing.
C13_SameRuleForBothSearches ==
    ImageSearchReturned =>
        /\ ~IsDataUri(fn_out) /\ ~HoldsSvg(fn_out)
        /\ fn_out = ChosenByEither(Remaining(fn_in.list))

\* C13 as amended: both searches return no inline-data URI and no URL that holds "svg";
\* the card search prefers the first remaining candidate that matches a path pattern or
\* ends in .jpg, .jpeg, .png, .webp or .gif; the detail search prefers the first one that
\* matches a path pattern and also holds .jpg, .jpeg, .png or .webp; each returns the
\* first remaining candidate when it prefers none, and nothing when none remains.
C13_EachSearchItsOwnRule ==
    /\ ImageSearchReturned => (~IsDataUri(fn_out) /\ ~HoldsSvg(fn_out))
    /\ Returned("find_photo_on_element") => fn_out = ChosenByEither(Remaining(fn_in.list))
    /\ Returned("find_landscape_image_from_detail") => fn_out = ChosenByBoth(Remaining(fn_in.list))

\* the detail search, given a bitmap and then an uploads path without extension,
\* prefers neither and returns the first
C13_Witness ==
    /\ Returned("find_landscape_image_from_detail")
    /\ fn_in.list = <<<<"i", "c", "o", "n", ".", "b", "m", "p">>, <<"/", "u", "p", "l", "o", "a", "d", "s", "/", "d", "o", "c">>>>
    /\ fn_out = <<"h", "t", "t", "p", "s", ":", "/", "/", "i", "r", "r", "e", "s", ".", "b", "e", "/", "i", "c", "o", "n", ".", "b", "m", "p">>

\* ------------------------------------------------------------------ C14

\* v is "mailto:" and an address, then "?subject=" and a subject that ends with id
IsInquiryLinkFor(v, id) ==
    /\ Len(v) >= 8 /\ SubSeq(v, 1, 7) = <<"m", "a", "i", "l", "t", "o", ":">> /\ v[8] # "?"
    /\ \E i \in 9..Len(v) :
          /\ i + 8 <= Len(v) /\ SubSeq(v, i, i + 8) = <<"?", "s", "u", "b", "j", "e", "c", "t", "=">>
          /\ Len(v) - Len(id) >= i + 8
          /\ SubSeq(v, Len(v) - Len(id) + 1, Len(v)) = id

\* C14: the price-inquiry target of every emitted record whose price is the on-request
\* value is a "mailto:" link with a subject that names the record's listing_id, also
\* when no contact e-mail was found or the detail page could not be fetched.
C14_InquiryTargetIsMailto ==
    \A r \in Emitted :
        r.price = OnRequestPrice => IsInquiryLinkFor(r.Button3_Value, r.listing_id)

\* ------------------------------------------------------------------ C15

\* the e-mail found on the detail page of an assembled listing, <<>> without one
FoundEmail(a) ==
    IF DetailFailed(a.outcome) THEN <<>>
    ELSE extract_contact_and_email_from_detail(a.outcome.body).email

\* the part of the address before its first at-sign
LocalPart(email) ==
    IF \E i \in 1..Len(email) : email[i] = "@"
    THEN SubSeq(email, 1, (CHOOSE i \in 1..Len(email) : email[i] = "@" /\ \A j \in 1..(i - 1) : email[j] # "@") - 1)
    ELSE email

NameTokens(local) == SplitOnSet(local, NameSeparators)

\* the display name: the first token of the local part, capitalized; when the local part
\* begins with a separator, its non-empty tokens, capitalized and joined by spaces
DisplayNameOfTokens(tokens) ==
    IF tokens[1] # <<>> THEN Capitalize(tokens[1])
    ELSE Join(CapitalizeEach(SelectSeq(tokens, LAMBDA p : p # <<>>)), <<" ">>)

DisplayName(email) == DisplayNameOfTokens(NameTokens(LocalPart(email)))

ContactFieldsFor(email, generic) ==
    IF email # <<>>
    THEN [label |-> <<"C", "o", "n", "t", "a", "c", "t", "e", "e", "r", " ">> \o DisplayName(email) \o <<" ", "-", " ", "I", "r", "r", "e", "s">>,
          email |-> <<"m", "a", "i", "l", "t", "o", ":">> \o email]
    ELSE [label |-> generic, email |-> <<>>]

\* C15 as claimed: a record with a contact e-mail found has "mailto:" and the e-mail as
\* its contact e-mail and "Contacteer <DisplayName> - Irres" as its contact label; a
\* record without one has an empty contact e-mail and a non-empty generic label.
C15_GenericLabelWithoutEmail ==
    \A k \in 1..Len(assembled) :
        assembled[k].obj \in Emitted =>
            /\ assembled[k].obj.Button2_email = ContactFieldsFor(FoundEmail(assembled[k]), <<>>).email
            /\ FoundEmail(assembled[k]) # <<>> =>
                  assembled[k].obj.Button2_Label = ContactFieldsFor(FoundEmail(assembled[k]), <<>>).label
            /\ FoundEmail(assembled[k]) = <<>> => assembled[k].obj.Button2_Label # <<>>

\* C15 as amended: the same with an e-mail found; without one both the contact e-mail
\* and the contact label are empty.
C15_EmptyLabelWithoutEmail ==
    \A k \in 1..Len(assembled) :
        assembled[k].obj \in Emitted =>
            /\ assembled[k].obj.Button2_email = ContactFieldsFor(FoundEmail(assembled[k]), <<>>).email
            /\ assembled[k].obj.Button2_Label = ContactFieldsFor(FoundEmail(assembled[k]), <<>>).label

\* a record whose detail page answered 200 without any e-mail is emitted with an empty
\* contact label and e-mail
C15_Witness ==
    /\ Succeeded
    /\ Len(assembled) = 1
    /\ assembled[1].outcome = Answer(200, Doc2)
    /\ assembled[1].obj \in Emitted
    /\ assembled[1].obj.Button2_Label = <<>>
    /\ assembled[1].obj.Button2_email = <<>>

\* ------------------------------------------------------------------ C16

\* the digits after the first "/pand/" of url that a digit follows, <<>> without one
NumberInPath(url) ==
    LET starts == {i \in 1..Len(url) :
                      i + 6 <= Len(url) /\ SubSeq(url, i, i + 5) = <<"/", "p", "a", "n", "d", "/">> /\ IsDigit(url[i + 6])}
    IN  IF starts = {} THEN <<>>
        ELSE LET first == (CHOOSE i \in starts : \A j \in starts : i <= j) + 6
                 ends == {j \in first..Len(url) : \A n \in first..j : IsDigit(url[n])}
             IN  SubSeq(url, first, CHOOSE j \in ends : \A n \in ends : n <= j)

\* the first whitespace-delimited token of location, its letters, digits and hyphens
LocationToken(location) ==
    IF SplitWs(location) = <<>> THEN <<>>
    ELSE SelectSeq(SplitWs(location)[1],
                   LAMBDA c : IsAsciiLetter(c) \/ IsDigit(c) \/ c = "-")

PreferredId(anchor_name, number, url, location) ==
    IF anchor_name # <<>> THEN anchor_name
    ELSE IF number # <<>> THEN number \o <<"-">> \o LocationToken(location)
    ELSE url

PriceLike(p) ==
    \/ \E i \in 1..Len(p) : p[i] = "EUR"
    \/ Contains(LowerStr(p), <<"p", "r", "i", "j", "s", " ", "o", "p", " ", "a", "a", "n", "v", "r", "a", "a", "g">>)
    \/ Contains(LowerStr(p), <<"c", "o", "m", "p", "r", "o", "m", "i", "s">>)

FirstPriceLike(parts) ==
    LET hits == {i \in 1..Len(parts) : PriceLike(parts[i])} IN
    IF hits = {} THEN <<>> ELSE parts[CHOOSE i \in hits : \A j \in hits : i <= j]

\* C17: the raw price of a parsed card is the first of its text segments that is
\* price-like; a later price-like segment does not replace it.
C17_FirstPriceSegmentKept ==
    \A k \in 1..Len(assembled) :
        assembled[k].parsed.price_raw = FirstPriceLike(CardParts(page.anchors[assembled[k].link]))

\* ------------------------------------------------------------------ C18

\* the address of the first mail-link whose position is in among
FirstAddress(doc, among) ==
    MailtoCandidate(doc.mailtos[CHOOSE i \in among : \A j \in among : i <= j])

\* the three levels of the claim, over the mail-links that yield an address
PreferredEmail(doc) ==
    LET usable == {i \in 1..Len(doc.mailtos) : MailtoCandidate(doc.mailtos[i]) # <<>>}
        in_form == {i \in usable : doc.in_form[i]}
    IN  IF in_form # {} THEN FirstAddress(doc, in_form)
        ELSE IF usable # {} THEN FirstAddress(doc, usable)
        ELSE normalize_text(doc.text_email)

\* C18: the e-mail of a detail document is that of the first usable mail-link inside the
\* contact form if there is one, else that of the first usable mail-link of the
\* document, else the first e-mail pattern of the text.
C18_ContactFormLinkPreferred ==
    Returned("extract_contact_and_email_from_detail") => fn_out.email = PreferredEmail(fn_in.doc)

\* ------------------------------------------------------------------ C19

\* C19: no detail-page URL is fetched twice in one run.
C19_EachUrlFetchedOnce ==
    \A m, n \in FetchEvents : m # n => log[m].url # log[n].url

====
